---- MODULE Spec2Model ----
(***************************************************************************)
(* A model of IBTK's PETScMatUtilities (ibtk/src/math/PETScMatUtilities.cpp): *)
(* the assembly of PETSc matrices and index sets from the patch data of one *)
(* SAMRAI patch level.  Every MPI process runs the same function on its own *)
(* patches; one phase of the function (count, create, set values, assemble) *)
(* is one action of the process.                                            *)
(***************************************************************************)
EXTENDS Integers, Sequences, FiniteSets, TLC

VARIABLES
    cfg,            \* the inputs of the call (grid level, counts, sizes)
    dof_index_data, \* the DOF Index Field: patch -> (location -> DOF index)
    pc,             \* per process: the phase the call has reached
    rng,            \* per process: n_local, i_lower, i_upper, n_total
    d_nnz,          \* per process: declared local nonzeros per local row
    o_nnz,          \* per process: declared remote nonzeros per local row
    prealloc,       \* per process: what MatCreateAIJ was given
    mat,            \* per process: the <<row, col, value>> entries it has set
    calls,          \* per process: the MatSetValues calls made, in order
    L,              \* per process: its part of the restriction scaling vector
    is_overlap,     \* per process: the list of overlapping index sets (handles)
    is_nonoverlap,  \* per process: the list of non-overlapping index sets (handles)
    is_heap,        \* per process: the index-set objects, by handle
    asm_call,       \* per process: the partitioner calls made and the overlap of the last
    interp          \* per process: the locals of the interpolation call

vars == <<cfg, dof_index_data, pc, rng, d_nnz, o_nnz, prealloc, mat, calls, L,
          is_overlap, is_nonoverlap, is_heap, asm_call, interp>>

----------------------------------------------------------------------------
(* Bounds of the model.                                                     *)

MaxRanks == 3
MaxDofs == 4

----------------------------------------------------------------------------
(* std::vector<int> is a function on 0..n-1.                                *)

VecSize(v) == Cardinality(DOMAIN v)

RECURSIVE AccumulateTo(_, _)
(* std::accumulate(v.begin(), v.begin() + n, 0) *)
AccumulateTo(v, n) == IF n <= 0 THEN 0 ELSE AccumulateTo(v, n - 1) + v[n - 1]

(* The index ranges one process derives from the per-process DOF counts.    *)
IndexRanges_offbyone(num_dofs_per_proc, mpi_rank) ==
    LET n_local == num_dofs_per_proc[mpi_rank]
        i_lower == AccumulateTo(num_dofs_per_proc, mpi_rank + 1)
    IN  [n_local |-> n_local, i_lower |-> i_lower, i_upper |-> i_lower + n_local,
         n_total |-> AccumulateTo(num_dofs_per_proc, VecSize(num_dofs_per_proc))]

IndexRanges(num_dofs_per_proc, mpi_rank) ==
    LET n_local == num_dofs_per_proc[mpi_rank]
        i_lower == AccumulateTo(num_dofs_per_proc, mpi_rank)
        i_upper == i_lower + n_local
        n_total == AccumulateTo(num_dofs_per_proc, VecSize(num_dofs_per_proc))
    IN  [n_local |-> n_local, i_lower |-> i_lower, i_upper |-> i_upper,
         n_total |-> n_total]

NoRange == [n_local |-> -1, i_lower |-> -1, i_upper |-> -1, n_total |-> -1]

----------------------------------------------------------------------------
(* The DOF partition: every process derives its range from the same vector. *)

Ranks == DOMAIN cfg.num_dofs_per_proc

PartitionInit ==
    /\ \E n \in 1..MaxRanks :
         \E v \in [0..(n - 1) -> 0..MaxDofs] : cfg = [num_dofs_per_proc |-> v]
    /\ dof_index_data = <<>>
    /\ pc = [r \in Ranks |-> "start"]
    /\ rng = [r \in Ranks |-> NoRange]
    /\ d_nnz = <<>>
    /\ o_nnz = <<>>
    /\ prealloc = <<>>
    /\ mat = <<>>
    /\ calls = <<>>
    /\ L = <<>>
    /\ is_overlap = <<>>
    /\ is_nonoverlap = <<>>
    /\ is_heap = <<>>
    /\ asm_call = <<>>
    /\ interp = <<>>

DetermineIndexRanges(r) ==
    /\ pc[r] = "start"
    /\ rng' = [rng EXCEPT ![r] = IndexRanges(cfg.num_dofs_per_proc, r)]
    /\ pc' = [pc EXCEPT ![r] = "ranged"]
    /\ UNCHANGED <<cfg, dof_index_data, d_nnz, o_nnz, prealloc, mat, calls, L,
                   is_overlap, is_nonoverlap, is_heap, asm_call, interp>>

PartitionNext == \E r \in Ranks : DetermineIndexRanges(r)

SpecPartition == PartitionInit /\ [][PartitionNext]_vars

RECURSIVE SumOver(_, _)
SumOver(v, S) ==
    IF S = {} THEN 0
    ELSE LET k == CHOOSE x \in S : TRUE IN v[k] + SumOver(v, S \ {k})

OwnedRange(r) == rng[r].i_lower..(rng[r].i_upper - 1)

(* C1: the ownership ranges [lower_r, upper_r) the processes compute are    *)
(* pairwise disjoint, contiguous in rank order, and their union is exactly  *)
(* [0, total), total being the sum of all counts.                           *)
C1_RangesTile ==
    LET done == {r \in Ranks : pc[r] = "ranged"}
        total == SumOver(cfg.num_dofs_per_proc, Ranks)
    IN  /\ \A r \in done :
              /\ rng[r].n_total = total
              /\ Cardinality(OwnedRange(r)) = cfg.num_dofs_per_proc[r]
              /\ OwnedRange(r) \subseteq 0..(total - 1)
        /\ \A r, s \in done : r # s => OwnedRange(r) \cap OwnedRange(s) = {}
        /\ \A r, s \in done : s = r + 1 => rng[r].i_upper = rng[s].i_lower
        /\ done = Ranks => UNION {OwnedRange(r) : r \in Ranks} = 0..(total - 1)

C1_Witness ==
    /\ VecSize(cfg.num_dofs_per_proc) = MaxRanks
    /\ \A r \in Ranks : pc[r] = "ranged" /\ cfg.num_dofs_per_proc[r] > 0

----------------------------------------------------------------------------
(* SAMRAI index space.  An Index<NDIM> is a tuple; component `axis` of the  *)
(* code is position axis + 1 of the tuple.  A Box is [lo, hi], both ends    *)
(* included; Box<NDIM>::Iterator runs through it first axis fastest.        *)

NDIM == 2
Axes == 0..(NDIM - 1)

IntVec(c) == [k \in 1..NDIM |-> c]
Unit(axis) == [k \in 1..NDIM |-> IF k = axis + 1 THEN 1 ELSE 0]
IAdd(i, j) == [k \in 1..NDIM |-> i[k] + j[k]]
ISub(i, j) == [k \in 1..NDIM |-> i[k] - j[k]]

MkBox(lo, hi) == [lo |-> lo, hi |-> hi]
BoxContains(b, i) == \A k \in 1..NDIM : b.lo[k] <= i[k] /\ i[k] <= b.hi[k]
BoxPoints(b) == {<<x, y>> : x \in b.lo[1]..b.hi[1], y \in b.lo[2]..b.hi[2]}
BoxCells(b, k) == IF b.hi[k] < b.lo[k] THEN 0 ELSE b.hi[k] - b.lo[k] + 1
BoxSize(b) == BoxCells(b, 1) * BoxCells(b, 2)
BoxSeq(b) ==
    [n \in 1..BoxSize(b) |->
        <<b.lo[1] + ((n - 1) % BoxCells(b, 1)), b.lo[2] + ((n - 1) \div BoxCells(b, 1))>>]
GrowBox(b, g) == MkBox(ISub(b.lo, g), IAdd(b.hi, g))
toCellBox(b) == b
toSideBox(b, axis) == MkBox(b.lo, IAdd(b.hi, Unit(axis)))

RECURSIVE Flat(_)
Flat(ss) == IF ss = <<>> THEN <<>> ELSE Head(ss) \o Flat(Tail(ss))

Min(a, b) == IF a < b THEN a ELSE b
Max(a, b) == IF a < b THEN b ELSE a

----------------------------------------------------------------------------
(* The patch level and its DOF Index Field, as the grid layer and           *)
(* PETScVecUtilities hand them to the assemblers.  A level record holds the *)
(* physical domain box, the patches (box and owning process), the data      *)
(* centering, depth and ghost width of the index data.  A location key is   *)
(* <<a, i, d>>: a is the axis of a side-centred value and NDIM for a        *)
(* cell-centred one, i the index, d the depth.                              *)

CELL == NDIM

DataAxes(level) ==
    IF level.centering = "CELL" THEN <<CELL>> ELSE [a1 \in 1..NDIM |-> a1 - 1]
DataBox(b, a) == IF a = CELL THEN toCellBox(b) ELSE toSideBox(b, a)
PatchNums(level) == 1..Len(level.patches)

CellPatch(level, i) == {p \in PatchNums(level) : BoxContains(level.patches[p].box, i)}

(* The patch a value belongs to: the patch whose cell box holds the index;  *)
(* a side on the upper end of the level belongs to the patch below it.      *)
MasterPatch(level, a, i) ==
    LET here == CellPatch(level, i)
        below == IF a = CELL THEN {} ELSE CellPatch(level, ISub(i, Unit(a)))
    IN  IF here # {} THEN CHOOSE p \in here : TRUE
        ELSE IF below # {} THEN CHOOSE p \in below : TRUE
        ELSE 0

(* The sides on the upper face of a patch along axis a that the patch is    *)
(* not the master of: those that are the lower sides of a cell of another   *)
(* patch of the level.                                                      *)
ForeignFace(level, p, a) ==
    IF a = CELL THEN {}
    ELSE {j \in BoxPoints(toSideBox(level.patches[p].box, a)) :
            /\ j[a + 1] = level.patches[p].box.hi[a + 1] + 1
            /\ CellPatch(level, j) # {}}

LexIndex(b, i) == (i[1] - b.lo[1]) + (i[2] - b.lo[2]) * BoxCells(b, 1)

(* The place of location i among the values of axis a that patch p is the  *)
(* master of, in the order of the box iterator.                             *)
OwnedIndex(level, p, a, i) ==
    LexIndex(DataBox(level.patches[p].box, a), i)
        - Cardinality({j \in ForeignFace(level, p, a) :
                          LexIndex(DataBox(level.patches[p].box, a), j)
                              < LexIndex(DataBox(level.patches[p].box, a), i)})

AxisCount(level, p, a) ==
    (BoxSize(DataBox(level.patches[p].box, a)) - Cardinality(ForeignFace(level, p, a)))
        * level.depth

PatchCount(level, p) ==
    LET axes == DataAxes(level)
    IN  SumOver([k \in DOMAIN axes |-> AxisCount(level, p, axes[k])], DOMAIN axes)

ProcCount(level, r) ==
    SumOver([p \in PatchNums(level) |->
                IF level.patches[p].owner = r THEN PatchCount(level, p) ELSE 0],
            PatchNums(level))

NumDofsPerProc(level) == [r \in 0..(level.nprocs - 1) |-> ProcCount(level, r)]

(* The DOF index of a value: the values of a process are numbered from the  *)
(* process's lower bound on, patch by patch, axis by axis, in the order of  *)
(* the box iterator, the depths of one location together (level.rev: in the *)
(* opposite order).  A location no patch is the master of has the sentinel. *)
DofOf(level, a, i, d) ==
    LET m == MasterPatch(level, a, i)
    IN  IF m = 0 THEN -1
        ELSE LET r == level.patches[m].owner
                 axes == DataAxes(level)
                 lower == AccumulateTo(NumDofsPerProc(level), r)
                 n == SumOver([q \in PatchNums(level) |->
                                  IF q < m /\ level.patches[q].owner = r
                                  THEN PatchCount(level, q) ELSE 0], PatchNums(level))
                      + SumOver([k \in DOMAIN axes |->
                                    IF axes[k] < a THEN AxisCount(level, m, axes[k]) ELSE 0],
                                DOMAIN axes)
                      + OwnedIndex(level, m, a, i) * level.depth + d
             IN  IF level.rev THEN lower + ProcCount(level, r) - 1 - n ELSE lower + n

GhostKeys(level, p) ==
    UNION {{<<a, i, d>> :
              i \in BoxPoints(DataBox(GrowBox(level.patches[p].box, IntVec(level.gcw)), a)),
              d \in 0..(level.depth - 1)} :
           a \in {DataAxes(level)[k] : k \in DOMAIN DataAxes(level)}}

(* The field of every patch, over its ghost box.                            *)
DofIndexField(level) ==
    [p \in PatchNums(level) |->
        [key \in GhostKeys(level, p) |-> DofOf(level, key[1], key[2], key[3])]]
----------------------------------------------------------------------------
(* PETSc.  MatSetValues(mat, 1, &row, n, cols, vals, INSERT_VALUES) sets    *)
(* the entries of one row in order; a negative row or column index is       *)
(* ignored; an index beyond the matrix size is an error.  A call is the     *)
(* record [row, cols, vals]; a matrix is the set of its <<row, col, value>> *)
(* entries.                                                                 *)

MatSetValuesFails(call, M, N) ==
    \/ call.row >= M
    \/ call.row >= 0 /\ \E k \in 1..Len(call.cols) : call.cols[k] >= N

(* The calls that return: all of them up to the first error (IBTK_CHKERRQ   *)
(* ends the run).                                                           *)
CallsDone(cs, M, N) ==
    LET bad == {n \in 1..Len(cs) : MatSetValuesFails(cs[n], M, N)}
    IN  SubSeq(cs, 1, IF bad = {} THEN Len(cs)
                      ELSE (CHOOSE n \in bad : \A n2 \in bad : n <= n2) - 1)

MatSetAll_keepnegative(m0, cs) ==
    LET Sets(n) == {<<k, cs[n].cols[k], cs[n].vals[k]>> : k \in 1..Len(cs[n].cols)}
        new == UNION {{<<cs[n].row, s[2], s[3]>> : s \in Sets(n)} : n \in 1..Len(cs)}
    IN  {e \in m0 : \A f \in new : f[1] # e[1] \/ f[2] # e[2]} \cup new

(* The matrix after the calls cs, in order: with INSERT_VALUES the last     *)
(* value set at a position stays.                                           *)
MatSetAll(m0, cs) ==
    LET Sets(n) == {<<k, cs[n].cols[k], cs[n].vals[k]>> : k \in 1..Len(cs[n].cols)}
        Last(n) ==
            LET own == IF cs[n].row < 0 THEN {} ELSE {s \in Sets(n) : s[2] >= 0}
                later == {n2 \in (n + 1)..Len(cs) : cs[n2].row = cs[n].row}
                again == UNION {{s[2] : s \in Sets(n2)} : n2 \in later}
            IN  {<<cs[n].row, s[2], s[3]>> :
                   s \in {s1 \in own : /\ s1[2] \notin again
                                       /\ \A t \in own : t[2] = s1[2] => t[1] <= s1[1]}}
        new == UNION {Last(n) : n \in 1..Len(cs)}
    IN  {e \in m0 : \A f \in new : f[1] # e[1] \/ f[2] # e[2]} \cup new

Row(m, row) == {e \in m : e[1] = row}
RowCols(m, row) == {e[2] : e \in Row(m, row)}

RECURSIVE SumVals(_)
SumVals(es) ==
    IF es = {} THEN 0
    ELSE LET e == CHOOSE x \in es : TRUE IN e[3] + SumVals(es \ {e})
----------------------------------------------------------------------------
(* The stencil operator assembler: constructPatchLevelCCLaplaceOp and       *)
(* constructPatchLevelSCLaplaceOp.                                          *)

stencil_sz == 2 * NDIM + 1

(* stencil[0] is the centre; stencil[1 + 2 * axis + side] is one step down  *)
(* (side 0) or up (side 1) along axis.                                      *)
Stencil(stencil_index) ==
    IF stencil_index = 0 THEN IntVec(0)
    ELSE LET axis == (stencil_index - 1) \div 2
             side == (stencil_index - 1) % 2
         IN  [k \in 1..NDIM |-> IF k = axis + 1 THEN (IF side = 0 THEN -1 ELSE 1) ELSE 0]

(* PatchLevel<NDIM>::Iterator: the patches of the level this process owns.  *)
PatchLevelIterator(r) ==
    SelectSeq([p \in PatchNums(cfg.level) |-> p], LAMBDA p : cfg.level.patches[p].owner = r)

InRange(dof_index, R) == R.i_lower <= dof_index /\ dof_index < R.i_upper

(* PoissonUtilities::computeMatrixCoefficients: the coefficient of stencil  *)
(* slot s at a location, physical boundary conditions folded in: a slot     *)
(* that reaches across the physical boundary gets 0 and its contribution    *)
(* goes to the centre (factor -1 for a Dirichlet, +1 for a Neumann          *)
(* condition of boundary component bc).                                     *)
BcFactor(bc) == IF (cfg.bc + bc) % 2 = 0 THEN -1 ELSE 1

ComputeMatrixCoefficients(a, i, bc, s) ==
    LET inside(t) == BoxContains(DataBox(cfg.level.domain, a), IAdd(i, Stencil(t)))
        across == {t \in 1..(stencil_sz - 1) : ~inside(t)}
    IN  IF s = 0
        THEN cfg.C - (stencil_sz - 1) * cfg.D + Cardinality(across) * cfg.D * BcFactor(bc)
        ELSE IF inside(s) THEN cfg.D ELSE 0

(* CellData<NDIM, double> matrix_coefs(patch_box, stencil_sz * depth)       *)
MatrixCoefsCell(i, k) ==
    ComputeMatrixCoefficients(CELL, i, k \div stencil_sz, k % stencil_sz)

(* SideData<NDIM, double> matrix_coefs(patch_box, stencil_sz)               *)
MatrixCoefsSide(axis, i, k) == ComputeMatrixCoefficients(axis, i, axis, k)

(* The locations the loops of one process visit, in order.                  *)
CCVisits(r) ==
    LET ps == PatchLevelIterator(r)
        depth == cfg.level.depth
    IN  Flat([n \in 1..Len(ps) |->
                LET b == toCellBox(cfg.level.patches[ps[n]].box)
                IN  [m \in 1..(BoxSize(b) * depth) |->
                        <<ps[n], BoxSeq(b)[((m - 1) \div depth) + 1], (m - 1) % depth>>]])

SCVisits(r) ==
    LET ps == PatchLevelIterator(r)
    IN  Flat([n \in 1..Len(ps) |->
                Flat([a1 \in 1..NDIM |->
                        LET b == toSideBox(cfg.level.patches[ps[n]].box, a1 - 1)
                        IN  [m \in 1..BoxSize(b) |-> <<ps[n], a1 - 1, BoxSeq(b)[m]>>]])])
(* One pass of the count loop body, lines 169-196 (cell) and 313-337 (side). *)
CountRow(nnz, R, local_idx, nbr_dofs) ==
    LET n_d == Cardinality({s \in DOMAIN nbr_dofs : InRange(nbr_dofs[s], R)})
        n_o == Cardinality(DOMAIN nbr_dofs) - n_d
    IN  [d |-> [nnz.d EXCEPT ![local_idx] = Min(R.n_local, @ + 1 + n_d)],
         o |-> [nnz.o EXCEPT ![local_idx] = Min(R.n_total - R.n_local, @ + n_o)]]

CCLaplace_CountAt(nnz, R, p, i, d) ==
    LET dof_index == dof_index_data[p][<<CELL, i, d>>]
    IN  IF InRange(dof_index, R)
        THEN CountRow(nnz, R, dof_index - R.i_lower,
                      [s \in 1..(stencil_sz - 1) |->
                          dof_index_data[p][<<CELL, IAdd(i, Stencil(s)), d>>]])
        ELSE nnz

SCLaplace_CountAt(nnz, R, p, axis, i) ==
    LET dof_index == dof_index_data[p][<<axis, i, 0>>]
    IN  IF InRange(dof_index, R)
        THEN CountRow(nnz, R, dof_index - R.i_lower,
                      [s \in 1..(stencil_sz - 1) |->
                          dof_index_data[p][<<axis, IAdd(i, Stencil(s)), 0>>]])
        ELSE nnz

(* The row one pass of the value loop hands to MatSetValues, lines 228-249  *)
(* (cell) and 368-386 (side).                                               *)
CCLaplace_RowAt_nooffset(p, i, d) ==
    LET dof_index == dof_index_data[p][<<CELL, i, d>>]
    IN  [row |-> dof_index,
         cols |-> [s1 \in 1..stencil_sz |->
                      dof_index_data[p][<<CELL, IAdd(i, Stencil(s1 - 1)), d>>]],
         vals |-> [s1 \in 1..stencil_sz |-> MatrixCoefsCell(i, s1 - 1)]]

CCLaplace_RowAt_lowertwice(p, i, d) ==
    LET dof_index == dof_index_data[p][<<CELL, i, d>>]
        offset == d * stencil_sz
    IN  [row |-> dof_index,
         cols |-> [s1 \in 1..stencil_sz |->
                      IF s1 = 1 THEN dof_index
                      ELSE dof_index_data[p][<<CELL, IAdd(i, Stencil(1 + 2 * ((s1 - 2) \div 2))), d>>]],
         vals |-> [s1 \in 1..stencil_sz |-> MatrixCoefsCell(i, offset + s1 - 1)]]

CCLaplace_RowAt_firstcomponent(p, i, d) ==
    LET dof_index == dof_index_data[p][<<CELL, i, d>>]
        offset == d * stencil_sz
    IN  [row |-> dof_index,
         cols |-> [s1 \in 1..stencil_sz |->
                      IF s1 = 1 THEN dof_index
                      ELSE dof_index_data[p][<<CELL, IAdd(i, Stencil(s1 - 1)), 0>>]],
         vals |-> [s1 \in 1..stencil_sz |-> MatrixCoefsCell(i, offset + s1 - 1)]]

CCLaplace_RowAt(p, i, d) ==
    LET dof_index == dof_index_data[p][<<CELL, i, d>>]
        offset == d * stencil_sz
    IN  [row |-> dof_index,
         cols |-> [s1 \in 1..stencil_sz |->
                      IF s1 = 1 THEN dof_index
                      ELSE dof_index_data[p][<<CELL, IAdd(i, Stencil(s1 - 1)), d>>]],
         vals |-> [s1 \in 1..stencil_sz |-> MatrixCoefsCell(i, offset + s1 - 1)]]

SCLaplace_RowAt(p, axis, i) ==
    LET dof_index == dof_index_data[p][<<axis, i, 0>>]
    IN  [row |-> dof_index,
         cols |-> [s1 \in 1..stencil_sz |->
                      IF s1 = 1 THEN dof_index
                      ELSE dof_index_data[p][<<axis, IAdd(i, Stencil(s1 - 1)), 0>>]],
         vals |-> [s1 \in 1..stencil_sz |-> MatrixCoefsSide(axis, i, s1 - 1)]]

ZeroVec(n) == [k \in 0..(n - 1) |-> 0]

Laplace_Visits(r) == IF cfg.op = "CCLaplace" THEN CCVisits(r) ELSE SCVisits(r)

Laplace_DofAt(v) ==
    dof_index_data[v[1]][IF cfg.op = "CCLaplace" THEN <<CELL, v[2], v[3]>>
                         ELSE <<v[2], v[3], 0>>]

(* The count loop.  A pass changes entry local_idx of the two vectors only, *)
(* so entry k is what the passes that reach k make of it, in loop order.    *)
RECURSIVE Laplace_CountFrom(_, _, _, _)
Laplace_CountFrom(nnz, R, passes, n) ==
    IF n > Len(passes) THEN nnz
    ELSE Laplace_CountFrom(
             IF cfg.op = "CCLaplace"
             THEN CCLaplace_CountAt(nnz, R, passes[n][1], passes[n][2], passes[n][3])
             ELSE SCLaplace_CountAt(nnz, R, passes[n][1], passes[n][2], passes[n][3]),
             R, passes, n + 1)

Laplace_CountOf(passes, R) ==
    Laplace_CountFrom([d |-> ZeroVec(R.n_local), o |-> ZeroVec(R.n_local)], R, passes, 1)

Laplace_CountRows(vs, R) ==
    [k \in 0..(R.n_local - 1) |->
        Laplace_CountOf(SelectSeq(vs, LAMBDA v : Laplace_DofAt(v) - R.i_lower = k), R)]

Laplace_Counted(r, R, nnz) ==
    /\ rng' = [rng EXCEPT ![r] = R]
    /\ d_nnz' = [d_nnz EXCEPT ![r] = [k \in 0..(R.n_local - 1) |-> nnz[k].d[k]]]
    /\ o_nnz' = [o_nnz EXCEPT ![r] = [k \in 0..(R.n_local - 1) |-> nnz[k].o[k]]]

Laplace_CountIn(r, R) == Laplace_Counted(r, R, Laplace_CountRows(Laplace_Visits(r), R))

(* Lines 131-198 and 275-340: destroy the old matrix, set up the ranges and *)
(* count the nonzeros of every local row.                                   *)
Laplace_Count(r) ==
    /\ pc[r] = "start"
    /\ Laplace_CountIn(r, IndexRanges(cfg.num_dofs_per_proc, r))
    /\ mat' = [mat EXCEPT ![r] = {}]
    /\ pc' = [pc EXCEPT ![r] = "counted"]
    /\ UNCHANGED <<cfg, dof_index_data, prealloc, calls, L,
                   is_overlap, is_nonoverlap, is_heap, asm_call, interp>>
(* MatCreateAIJ is collective: it returns once every process has called it. *)
(* Lines 200-208 and 342-346.                                               *)
Laplace_Create(r) ==
    /\ pc[r] = "counted"
    /\ \A s \in Ranks : pc[s] # "start"
    /\ prealloc' = [prealloc EXCEPT ![r] =
                       [m |-> rng[r].n_local, n |-> rng[r].n_local,
                        d_nnz |-> IF rng[r].n_local # 0 THEN d_nnz[r] ELSE "NULL",
                        o_nnz |-> IF rng[r].n_local # 0 THEN o_nnz[r] ELSE "NULL"]]
    /\ pc' = [pc EXCEPT ![r] = "created"]
    /\ UNCHANGED <<cfg, dof_index_data, rng, d_nnz, o_nnz, mat, calls, L,
                   is_overlap, is_nonoverlap, is_heap, asm_call, interp>>

(* The passes of the value loop that reach MatSetValues: those at a         *)
(* location whose DOF index lies in the range of the process.               *)
Laplace_OwnedVisits_all(vs, R) == vs

Laplace_OwnedVisits(vs, R) == SelectSeq(vs, LAMBDA v : InRange(Laplace_DofAt(v), R))

Laplace_Rows(mine) ==
    [n \in 1..Len(mine) |->
        IF cfg.op = "CCLaplace"
        THEN CCLaplace_RowAt(mine[n][1], mine[n][2], mine[n][3])
        ELSE SCLaplace_RowAt(mine[n][1], mine[n][2], mine[n][3])]

Laplace_Set(r, rows, done) ==
    /\ mat' = [mat EXCEPT ![r] = MatSetAll(mat[r], done)]
    /\ calls' = [calls EXCEPT ![r] = done]
    /\ pc' = [pc EXCEPT ![r] = IF Len(done) < Len(rows) THEN "abort" ELSE "filled"]

(* Lines 210-252 and 348-389: one MatSetValues call per owned location.     *)
Laplace_SetValuesOf(r, rows) ==
    Laplace_Set(r, rows, CallsDone(rows, rng[r].n_total, rng[r].n_total))

Laplace_SetValues(r) ==
    /\ pc[r] = "created"
    /\ Laplace_SetValuesOf(r, Laplace_Rows(Laplace_OwnedVisits(Laplace_Visits(r), rng[r])))
    /\ UNCHANGED <<cfg, dof_index_data, rng, d_nnz, o_nnz, prealloc, L,
                   is_overlap, is_nonoverlap, is_heap, asm_call, interp>>
Laplace_Assemble_beforefill(r) ==
    /\ pc[r] \in {"created", "filled"}
    /\ pc' = [pc EXCEPT ![r] = "assembled"]
    /\ UNCHANGED <<cfg, dof_index_data, rng, d_nnz, o_nnz, prealloc, mat, calls, L,
                   is_overlap, is_nonoverlap, is_heap, asm_call, interp>>

(* MatAssemblyBegin/End, collective.  Lines 254-259 and 391-396.            *)
Laplace_Assemble(r) ==
    /\ pc[r] = "filled"
    /\ \A s \in Ranks : pc[s] \in {"filled", "assembled"}
    /\ pc' = [pc EXCEPT ![r] = "assembled"]
    /\ UNCHANGED <<cfg, dof_index_data, rng, d_nnz, o_nnz, prealloc, mat, calls, L,
                   is_overlap, is_nonoverlap, is_heap, asm_call, interp>>

(* The levels the stencil assembler is run on: a domain of up to MaxN cells *)
(* per axis, in one patch or cut in two along an axis, the patches given to *)
(* up to MaxProcs processes; and the 8 x 8 single-process level of          *)
(* tests/physical_boundary/extrapolation_01.cell.quadratic.input.           *)
MaxN == 3
MaxProcs == 2
N == 8

SplitBoxes(dom, least) ==
    {<<dom>>} \cup
    UNION {{<<MkBox(dom.lo, [dom.hi EXCEPT ![a + 1] = k - 1]),
              MkBox([dom.lo EXCEPT ![a + 1] = k], dom.hi)>> :
            k \in (dom.lo[a + 1] + least)..(dom.hi[a + 1] + 1 - least)} : a \in Axes}

LevelsOn(dom, least, nprocs, centering, depth, gcw) ==
    UNION {{[domain |-> dom,
             patches |-> [p \in 1..Len(bs) |-> [box |-> bs[p], owner |-> ow[p]]],
             nprocs |-> nprocs, centering |-> centering, depth |-> depth,
             gcw |-> gcw, rev |-> rev] :
            ow \in [1..Len(bs) -> 0..(nprocs - 1)], rev \in BOOLEAN} :
           bs \in SplitBoxes(dom, least)}

SmallDomains == {MkBox(<<0, 0>>, <<nx - 1, ny - 1>>) : nx \in 1..MaxN, ny \in 1..MaxN}

StencilLevels ==
    UNION {LevelsOn(dom, 1, n, "CELL", depth, 1) \cup
           (IF depth = 1 THEN LevelsOn(dom, 1, n, "SIDE", 1, 1) ELSE {}) :
           <<dom, n, depth>> \in SmallDomains \X (1..MaxProcs) \X (1..2)}

EndToEndLevels ==
    {l \in LevelsOn(MkBox(<<0, 0>>, <<N - 1, N - 1>>), 4, 1, "CELL", 1, 1) : ~l.rev}

CoefChoices ==
    {[C |-> 0, D |-> 1, bc |-> 0], [C |-> 1, D |-> 2, bc |-> 1]}

StencilInit ==
    /\ \E level \in StencilLevels \cup EndToEndLevels, co \in CoefChoices :
         /\ cfg = [op |-> IF level.centering = "CELL" THEN "CCLaplace" ELSE "SCLaplace",
                   level |-> level,
                   num_dofs_per_proc |-> NumDofsPerProc(level),
                   C |-> co.C, D |-> co.D, bc |-> co.bc]
         /\ dof_index_data = DofIndexField(level)
    /\ pc = [r \in Ranks |-> "start"]
    /\ rng = [r \in Ranks |-> NoRange]
    /\ d_nnz = [r \in Ranks |-> <<>>]
    /\ o_nnz = [r \in Ranks |-> <<>>]
    /\ prealloc = [r \in Ranks |-> <<>>]
    /\ mat = [r \in Ranks |-> {<<0, 0, 1>>}]
    /\ calls = [r \in Ranks |-> <<>>]
    /\ L = <<>>
    /\ is_overlap = <<>>
    /\ is_nonoverlap = <<>>
    /\ is_heap = <<>>
    /\ asm_call = <<>>
    /\ interp = <<>>

StencilNext ==
    \/ \E r \in Ranks : Laplace_Count(r)
    \/ \E r \in Ranks : Laplace_Create(r)
    \/ \E r \in Ranks : Laplace_SetValues(r)
    \/ \E r \in Ranks : Laplace_Assemble(r)

SpecStencil == StencilInit /\ [][StencilNext]_vars

----------------------------------------------------------------------------
(* Properties of the stencil operator.                                      *)

(* The locations whose row a process sets: the locations of its patches     *)
(* whose DOF index lies in its range.                                       *)
OwnedLocations(r) ==
    UNION {{<<p, key>> :
              key \in {k \in DOMAIN dof_index_data[p] :
                         /\ BoxContains(DataBox(cfg.level.patches[p].box, k[1]), k[2])
                         /\ InRange(dof_index_data[p][k], rng[r])}} :
           p \in {q \in PatchNums(cfg.level) : cfg.level.patches[q].owner = r}}

(* The stencil points of a location: itself and its 2 * NDIM neighbours.    *)
Within1(i) ==
    {j \in BoxPoints(GrowBox(MkBox(i, i), IntVec(1))) : j[1] = i[1] \/ j[2] = i[2]}

LivePoints(p, key) ==
    {j \in Within1(key[2]) : dof_index_data[p][<<key[1], j, key[3]>>] >= 0}

StencilDone(r) == pc[r] \in {"filled", "assembled"}

(* C2: in the matrix of the stencil assembler, cell- and side-centred,      *)
(* every owned row has exactly one entry per stencil point whose DOF index  *)
(* is not a negative sentinel, in the column of that DOF; a stencil point   *)
(* with a sentinel DOF index gives no entry, and no call fails.             *)
C2_OneEntryPerLivePoint ==
    /\ \A r \in Ranks : pc[r] # "abort"
    /\ \A r \in Ranks : StencilDone(r) =>
          \A loc \in OwnedLocations(r) :
              LET p == loc[1]
                  key == loc[2]
                  row == dof_index_data[p][key]
                  live == LivePoints(p, key)
              IN  /\ Cardinality(Row(mat[r], row)) = Cardinality(live)
                  /\ RowCols(mat[r], row) =
                         {dof_index_data[p][<<key[1], j, key[3]>>] : j \in live}

C2_Witness ==
    /\ cfg.op = "SCLaplace"
    /\ cfg.level.nprocs = MaxProcs
    /\ \A r \in Ranks : pc[r] = "assembled" /\ rng[r].n_local > 0
    /\ \E r \in Ranks : \E loc \in OwnedLocations(r) :
           Cardinality(LivePoints(loc[1], loc[2])) = stencil_sz
    /\ \E r \in Ranks : \E loc \in OwnedLocations(r) :
           Cardinality(Row(mat[r], dof_index_data[loc[1]][loc[2]])) < stencil_sz

(* The coefficients the evaluator supplies for a location, all slots.       *)
SuppliedSum(key) ==
    SumOver([s \in 0..(stencil_sz - 1) |->
                IF key[1] = CELL THEN MatrixCoefsCell(key[2], key[3] * stencil_sz + s)
                ELSE MatrixCoefsSide(key[1], key[2], s)],
            0..(stencil_sz - 1))

EightByEight ==
    /\ cfg.op = "CCLaplace"
    /\ cfg.level.domain = MkBox(<<0, 0>>, <<N - 1, N - 1>>)
    /\ cfg.level.nprocs = 1
    /\ cfg.level.depth = 1

RowsWith(m, n) == {row \in {e[1] : e \in m} : Cardinality(Row(m, row)) = n}

(* C4: on one process, for the 8 x 8 cell-centred level of depth 1, the     *)
(* matrix has 64 rows; 36 rows (the interior cells) have 5 entries, 24 (the *)
(* edges) have 4, 4 (the corners) have 3: 288 entries.                      *)
C4_EightByEightCounts ==
    (EightByEight /\ pc[0] = "assembled") =>
        /\ rng[0].n_total = 64 /\ prealloc[0].m = 64 /\ prealloc[0].n = 64
        /\ {e[1] : e \in mat[0]} = 0..63
        /\ Cardinality(RowsWith(mat[0], 5)) = 36
        /\ Cardinality(RowsWith(mat[0], 4)) = 24
        /\ Cardinality(RowsWith(mat[0], 3)) = 4
        /\ Cardinality(mat[0]) = 288
        /\ \A p \in PatchNums(cfg.level) : \A i \in BoxPoints(cfg.level.patches[p].box) :
               Cardinality(Row(mat[0], dof_index_data[p][<<CELL, i, 0>>])) =
                   5 - Cardinality({k \in 1..NDIM : i[k] \in {0, N - 1}})

C4_Witness ==
    /\ EightByEight
    /\ pc[0] = "assembled"
    /\ Len(cfg.level.patches) = 2
    /\ Cardinality(mat[0]) > 0

----------------------------------------------------------------------------
(* Rational numbers <<n, d>>, d > 0, in lowest terms: the values of the     *)
(* prolongation weights and of the restriction scaling, which the code      *)
(* holds in doubles.                                                        *)

Abs(x) == IF x < 0 THEN -x ELSE x

RECURSIVE GCD(_, _)
GCD(a, b) == IF b = 0 THEN a ELSE GCD(b, a % b)

Rat(n, d) ==
    LET g == GCD(Abs(n), Abs(d))
    IN  IF d < 0 THEN <<(-n) \div g, (-d) \div g>> ELSE <<n \div g, d \div g>>

ROne == <<1, 1>>
RZero == <<0, 1>>
RAdd(a, b) == Rat(a[1] * b[2] + b[1] * a[2], a[2] * b[2])
RSub(a, b) == Rat(a[1] * b[2] - b[1] * a[2], a[2] * b[2])
RMul(a, b) == Rat(a[1] * b[1], a[2] * b[2])
RDiv(a, b) == Rat(a[1] * b[2], a[2] * b[1])
RLeq(a, b) == a[1] * b[2] <= b[1] * a[2]
RAbs(a) == <<Abs(a[1]), a[2]>>


----------------------------------------------------------------------------
(* IndexUtilities and the application ordering of the coarse level.         *)

(* IndexUtilities::coarsen: division rounding down, for negative indices    *)
(* too.  IndexUtilities::refine: multiplication.                            *)
coarsen(i, ratio) == [k \in 1..NDIM |-> i[k] \div ratio[k]]
refine(i, ratio) == [k \in 1..NDIM |-> i[k] * ratio[k]]

(* IndexUtilities::mapIndexToInteger: the lexicographic number of (i,       *)
(* depth) in the index space num_cells with lower corner domain_lower.      *)
mapIndexToInteger(i, domain_lower, num_cells, depth, offset) ==
    (i[1] - domain_lower[1]) + (i[2] - domain_lower[2]) * num_cells[1]
        + depth * num_cells[1] * num_cells[2] + offset

(* The index space of the values of a level along axis a (CELL: of cells).  *)
NumCells(domain, a) ==
    [k \in 1..NDIM |-> domain.hi[k] - domain.lo[k] + (IF k = a + 1 THEN 2 ELSE 1)]

(* The number of values before those of axis a in the application order.    *)
DataOffset(domain, a, depth) ==
    IF a = CELL THEN 0
    ELSE SumOver([side \in 0..(NDIM - 1) |->
                     IF side < a
                     THEN depth * NumCells(domain, side)[1] * NumCells(domain, side)[2]
                     ELSE 0], 0..(NDIM - 1))

(* The application ordering PETScVecUtilities builds for a level: the pairs *)
(* <<application index, DOF index>> of its values.                          *)
LevelAO(level, ao_offset) ==
    UNION {{<<mapIndexToInteger(i, level.domain.lo, NumCells(level.domain, a), d,
                                ao_offset + DataOffset(level.domain, a, level.depth)),
              DofOf(level, a, i, d)>> :
              i \in {j \in BoxPoints(DataBox(level.domain, a)) : MasterPatch(level, a, j) # 0},
              d \in 0..(level.depth - 1)} :
           a \in {DataAxes(level)[k] : k \in DOMAIN DataAxes(level)}}

(* AOApplicationToPetsc: negative indices stay; an index the ordering does  *)
(* not hold becomes -1.                                                     *)
AOApplicationToPetsc(ao, n) ==
    IF n < 0 THEN n
    ELSE IF \E e \in ao : e[1] = n THEN (CHOOSE e \in ao : e[1] = n)[2]
    ELSE -1

----------------------------------------------------------------------------
(* The transfer assembler: constructProlongationOp_cell and _side.  cfg     *)
(* holds the fine level (cfg.level), the coarse level, the refinement       *)
(* ratio between them and the application ordering of the coarse level.     *)

(* Lines 798-807 and 945-954.                                               *)
ProlongRanges(mpi_rank) ==
    [m_local |-> cfg.num_dofs_per_proc[mpi_rank],
     n_local |-> cfg.num_coarse_dofs_per_proc[mpi_rank],
     i_fine_lower |-> AccumulateTo(cfg.num_dofs_per_proc, mpi_rank),
     i_fine_upper |-> AccumulateTo(cfg.num_dofs_per_proc, mpi_rank)
                          + cfg.num_dofs_per_proc[mpi_rank],
     j_coarse_lower |-> AccumulateTo(cfg.num_coarse_dofs_per_proc, mpi_rank),
     j_coarse_upper |-> AccumulateTo(cfg.num_coarse_dofs_per_proc, mpi_rank)
                            + cfg.num_coarse_dofs_per_proc[mpi_rank]]

(* samrai_petsc_map: the coarse DOF index of coarse location I, depth d.    *)
CoarseDof(a, I, d) ==
    AOApplicationToPetsc(
        cfg.coarse_level_ao,
        mapIndexToInteger(I, cfg.coarse.domain.lo, NumCells(cfg.coarse.domain, a), d,
                          cfg.coarse_ao_offset
                              + DataOffset(cfg.coarse.domain, a, cfg.level.depth)))

(* The row of fine cell i_fine, depth d: lines 871-886.                     *)
Prolong_CellRowAt_firstdepth(p, i_fine, d) ==
    [row |-> dof_index_data[p][<<CELL, i_fine, d>>],
     cols |-> <<CoarseDof(CELL, coarsen(i_fine, cfg.ratio), 0)>>,
     vals |-> <<ROne>>]

Prolong_CellRowAt(p, i_fine, d) ==
    [row |-> dof_index_data[p][<<CELL, i_fine, d>>],
     cols |-> <<CoarseDof(CELL, coarsen(i_fine, cfg.ratio), d)>>,
     vals |-> <<ROne>>]

(* The row of the fine side i of axis, depth d: lines 1070-1094.            *)
Prolong_SideRowAt_norefine(p, axis, i, d) ==
    LET I_L == coarsen(i, cfg.ratio)
        I_U == IAdd(I_L, Unit(axis))
        w_L == RSub(ROne, Rat(i[axis + 1] - I_L[axis + 1], cfg.ratio[axis + 1]))
    IN  [row |-> dof_index_data[p][<<axis, i, d>>],
         cols |-> <<CoarseDof(axis, I_L, d), CoarseDof(axis, I_U, d)>>,
         vals |-> <<w_L, RSub(ROne, w_L)>>]

Prolong_SideRowAt(p, axis, i, d) ==
    LET I_L == coarsen(i, cfg.ratio)
        I_U == IAdd(I_L, Unit(axis))
        w_L == RSub(ROne, Rat(i[axis + 1] - refine(I_L, cfg.ratio)[axis + 1],
                              cfg.ratio[axis + 1]))
    IN  [row |-> dof_index_data[p][<<axis, i, d>>],
         cols |-> <<CoarseDof(axis, I_L, d), CoarseDof(axis, I_U, d)>>,
         vals |-> <<w_L, RSub(ROne, w_L)>>]

(* on_proc_fine_loc, lines 983-992 and 1062-1068.                           *)
OnProcFineLoc(v, R) ==
    \A d \in 0..(cfg.level.depth - 1) :
        /\ dof_index_data[v[1]][<<v[2], v[3], d>>] >= R.i_fine_lower
        /\ dof_index_data[v[1]][<<v[2], v[3], d>>] < R.i_fine_upper

(* The passes of the loops over the fine level, count loop and value loop   *)
(* alike, in order, each with its row and its mapped columns.               *)
Prolong_CellRows(vs) ==
    [n \in 1..Len(vs) |-> Prolong_CellRowAt(vs[n][1], vs[n][2], vs[n][3])]

Prolong_SideRowsOf(mine, depth) ==
    [n \in 1..(Len(mine) * depth) |->
        Prolong_SideRowAt(mine[((n - 1) \div depth) + 1][1], mine[((n - 1) \div depth) + 1][2],
                          mine[((n - 1) \div depth) + 1][3], (n - 1) % depth)]

Prolong_Rows(r) ==
    IF cfg.op = "Prolong_cell" THEN Prolong_CellRows(CCVisits(r))
    ELSE Prolong_SideRowsOf(SelectSeq(SCVisits(r), LAMBDA v : OnProcFineLoc(v, ProlongRanges(r))),
                            cfg.level.depth)

OnProcCoarse(col, R) == col >= R.j_coarse_lower /\ col < R.j_coarse_upper

(* One pass of the count loop on the counts of its row: lines 839-850 and   *)
(* 1006-1025.                                                               *)
Prolong_CountPass_assign(nnz, c, R) ==
    IF OnProcCoarse(c.cols[Len(c.cols)], R)
    THEN [d |-> 1, o |-> IF OnProcCoarse(c.cols[1], R) THEN nnz.o ELSE 1]
    ELSE [d |-> IF OnProcCoarse(c.cols[1], R) THEN 1 ELSE nnz.d, o |-> 1]

Prolong_CountPass(nnz, c, R) ==
    IF Len(c.cols) = 1
    THEN IF OnProcCoarse(c.cols[1], R) THEN [nnz EXCEPT !.d = 1] ELSE [nnz EXCEPT !.o = 1]
    ELSE [d |-> (IF OnProcCoarse(c.cols[1], R) THEN 1 ELSE nnz.d)
                    + (IF OnProcCoarse(c.cols[2], R) THEN 1 ELSE 0),
          o |-> (IF OnProcCoarse(c.cols[1], R) THEN nnz.o ELSE 1)
                    + (IF OnProcCoarse(c.cols[2], R) THEN 0 ELSE 1)]

RECURSIVE Prolong_CountFrom(_, _, _, _)
Prolong_CountFrom(nnz, R, passes, n) ==
    IF n > Len(passes) THEN nnz
    ELSE Prolong_CountFrom(Prolong_CountPass(nnz, passes[n], R), R, passes, n + 1)

(* A pass changes the counts of its own row only, so the counts of local    *)
(* row k are what the passes of row k make of them, in loop order.          *)
Prolong_CountRows(rows, R) ==
    [k \in 0..(R.m_local - 1) |->
        Prolong_CountFrom([d |-> 0, o |-> 0], R,
                          SelectSeq(rows, LAMBDA c : c.row - R.i_fine_lower = k), 1)]

Prolong_Counted(r, R, nnz) ==
    /\ rng' = [rng EXCEPT ![r] = R]
    /\ d_nnz' = [d_nnz EXCEPT ![r] = [k \in 0..(R.m_local - 1) |-> nnz[k].d]]
    /\ o_nnz' = [o_nnz EXCEPT ![r] = [k \in 0..(R.m_local - 1) |-> nnz[k].o]]

(* Lines 776-852 and 909-1028.                                              *)
Prolong_Count(r) ==
    /\ pc[r] = "start"
    /\ Prolong_Counted(r, ProlongRanges(r), Prolong_CountRows(Prolong_Rows(r), ProlongRanges(r)))
    /\ mat' = [mat EXCEPT ![r] = {}]
    /\ pc' = [pc EXCEPT ![r] = "counted"]
    /\ UNCHANGED <<cfg, dof_index_data, prealloc, calls, L,
                   is_overlap, is_nonoverlap, is_heap, asm_call, interp>>

(* MatCreateAIJ, collective: lines 854-858 and 1030-1034.                   *)
Prolong_Create(r) ==
    /\ pc[r] = "counted"
    /\ \A s \in Ranks : pc[s] # "start"
    /\ prealloc' = [prealloc EXCEPT ![r] =
                       [m |-> rng[r].m_local, n |-> rng[r].n_local,
                        d_nnz |-> IF rng[r].m_local # 0 THEN d_nnz[r] ELSE "NULL",
                        o_nnz |-> IF rng[r].m_local # 0 THEN o_nnz[r] ELSE "NULL"]]
    /\ pc' = [pc EXCEPT ![r] = "created"]
    /\ UNCHANGED <<cfg, dof_index_data, rng, d_nnz, o_nnz, mat, calls, L,
                   is_overlap, is_nonoverlap, is_heap, asm_call, interp>>

(* The calls that take effect.  The cell loop checks the error code of      *)
(* every call (line 886); the side loop drops it (line 1094) and goes on.   *)
Prolong_CallsDone(rows, nrows, ncols) ==
    IF cfg.op = "Prolong_cell" THEN CallsDone(rows, nrows, ncols)
    ELSE SelectSeq(rows, LAMBDA c : ~MatSetValuesFails(c, nrows, ncols))

Prolong_Set(r, rows, done) ==
    /\ mat' = [mat EXCEPT ![r] = MatSetAll(mat[r], done)]
    /\ calls' = [calls EXCEPT ![r] = done]
    /\ pc' = [pc EXCEPT ![r] = IF cfg.op = "Prolong_cell" /\ Len(done) < Len(rows)
                               THEN "abort" ELSE "filled"]

Prolong_SetValuesOf(r, rows) ==
    Prolong_Set(r, rows,
                Prolong_CallsDone(rows, AccumulateTo(cfg.num_dofs_per_proc, cfg.level.nprocs),
                                  AccumulateTo(cfg.num_coarse_dofs_per_proc, cfg.level.nprocs)))

(* Lines 860-889 and 1036-1098.                                             *)
Prolong_SetValues(r) ==
    /\ pc[r] = "created"
    /\ Prolong_SetValuesOf(r, Prolong_Rows(r))
    /\ UNCHANGED <<cfg, dof_index_data, rng, d_nnz, o_nnz, prealloc, L,
                   is_overlap, is_nonoverlap, is_heap, asm_call, interp>>

(* MatAssemblyBegin/End, collective: lines 891-895 and 1100-1104.           *)
Prolong_Assemble(r) ==
    /\ pc[r] = "filled"
    /\ \A s \in Ranks : pc[s] \in {"filled", "assembled"}
    /\ pc' = [pc EXCEPT ![r] = "assembled"]
    /\ UNCHANGED <<cfg, dof_index_data, rng, d_nnz, o_nnz, prealloc, mat, calls, L,
                   is_overlap, is_nonoverlap, is_heap, asm_call, interp>>

----------------------------------------------------------------------------
(* constructRestrictionScalingOp on the assembled prolongation matrix.      *)

(* The matrix as a whole: the entries of every process.                     *)
GlobalMat == UNION {mat[r] : r \in Ranks}

RECURSIVE RSumAbs(_)
RSumAbs(es) ==
    IF es = {} THEN RZero
    ELSE LET e == CHOOSE x \in es : TRUE
         IN  RAdd(RAbs(e[3]), RSumAbs(es \ {e}))

(* MatGetColumnNorms with NORM_1 (line 667): the sum over all the rows of   *)
(* the matrix of the magnitudes of the entries of column k.                 *)
ColumnNorms_local(r, k) == RSumAbs({e \in mat[r] : e[2] = k})

ColumnNorms(r, k) == RSumAbs({e \in GlobalMat : e[2] = k})

(* MathUtilities<double>::equalEps: the difference, relative to the larger  *)
(* magnitude when that exceeds one, is below the square root of the machine *)
(* epsilon, 2^-26.                                                          *)
TolInv == 67108864
BelowTol(x) == x[1] <= (x[2] - 1) \div TolInv
equalEps(a, b) ==
    LET absmax == IF RLeq(RAbs(a), RAbs(b)) THEN RAbs(b) ELSE RAbs(a)
    IN  IF RLeq(absmax, ROne) THEN BelowTol(RAbs(RSub(a, b)))
        ELSE BelowTol(RDiv(RAbs(RSub(a, b)), absmax))

(* Lines 668-681.                                                           *)
ColumnSumInv_noguard(sum) == RDiv(ROne, sum)

ColumnSumInv(sum) == IF ~equalEps(sum, RZero) THEN RDiv(ROne, sum) ELSE RZero

RestrictionScaling_inplace(r) ==
    /\ pc[r] = "assembled"
    /\ \A s \in Ranks : pc[s] \in {"assembled", "scaled"}
    /\ L' = [L EXCEPT ![r] = [k \in rng[r].j_coarse_lower..(rng[r].j_coarse_upper - 1) |->
                                 ColumnSumInv(ColumnNorms(r, k))]]
    /\ mat' = [mat EXCEPT ![r] =
                  {<<e[1], e[2], RMul(e[3], ColumnSumInv(ColumnNorms(r, e[2])))>> : e \in mat[r]}]
    /\ pc' = [pc EXCEPT ![r] = "scaled"]
    /\ UNCHANGED <<cfg, dof_index_data, rng, d_nnz, o_nnz, prealloc, calls,
                   is_overlap, is_nonoverlap, is_heap, asm_call, interp>>

(* Lines 654-714: every process computes the scaling of every column and    *)
(* stores that of the columns it owns.                                      *)
RestrictionScaling(r) ==
    /\ pc[r] = "assembled"
    /\ \A s \in Ranks : pc[s] \in {"assembled", "scaled"}
    /\ L' = [L EXCEPT ![r] = [k \in rng[r].j_coarse_lower..(rng[r].j_coarse_upper - 1) |->
                                 ColumnSumInv(ColumnNorms(r, k))]]
    /\ pc' = [pc EXCEPT ![r] = "scaled"]
    /\ UNCHANGED <<cfg, dof_index_data, rng, d_nnz, o_nnz, prealloc, mat, calls,
                   is_overlap, is_nonoverlap, is_heap, asm_call, interp>>

----------------------------------------------------------------------------
(* Level pairs for the transfer assembler: a coarse level of one patch over *)
(* the whole domain, lower corner at the origin or below it, and a fine     *)
(* level that refines the whole domain or its lowest cell, in one patch or  *)
(* split in two.                                                            *)
MaxCoarseN == 2
MaxRatio == 3

RefineBox(b, ratio) ==
    MkBox(refine(b.lo, ratio), ISub(refine(IAdd(b.hi, IntVec(1)), ratio), IntVec(1)))

CoarseCorners == {[lo |-> <<0, 0>>, rev |-> FALSE], [lo |-> <<-2, -1>>, rev |-> TRUE]}

FineRegions(cdom, ratio) ==
    {RefineBox(cdom, ratio), RefineBox(MkBox(cdom.lo, cdom.lo), ratio)}

LevelOf(dom, bs, ow, nprocs, centering, depth, rev) ==
    [domain |-> dom,
     patches |-> [p \in 1..Len(bs) |-> [box |-> bs[p], owner |-> ow[p]]],
     nprocs |-> nprocs, centering |-> centering, depth |-> depth, gcw |-> 1, rev |-> rev]

LevelPairsOn(cdom, rev, ratio, nprocs, centering, depth) ==
    UNION {UNION {{[coarse |-> LevelOf(cdom, <<cdom>>, <<co>>, nprocs, centering, depth, rev),
                    fine |-> LevelOf(RefineBox(cdom, ratio), bs, ow, nprocs, centering,
                                     depth, FALSE),
                    ratio |-> ratio] :
                   co \in 0..(nprocs - 1), ow \in [1..Len(bs) -> 0..(nprocs - 1)]} :
                  bs \in SplitBoxes(region, (BoxCells(region, 1) + 1) \div 2)} :
           region \in FineRegions(cdom, ratio)}

LevelPairs ==
    UNION {LevelPairsOn(MkBox(c.lo, <<c.lo[1] + nx - 1, c.lo[2] + ny - 1>>), c.rev,
                        IntVec(q), np, cd[1], cd[2]) :
           c \in CoarseCorners, nx \in 1..MaxCoarseN, ny \in 1..MaxCoarseN,
           q \in 1..MaxRatio, np \in 1..MaxProcs,
           cd \in {<<"CELL", 1>>, <<"CELL", 2>>, <<"SIDE", 1>>}}

ProlongInit ==
    /\ \E lp \in LevelPairs :
         /\ cfg = [op |-> IF lp.fine.centering = "CELL" THEN "Prolong_cell" ELSE "Prolong_side",
                   level |-> lp.fine,
                   coarse |-> lp.coarse,
                   ratio |-> lp.ratio,
                   coarse_level_ao |-> LevelAO(lp.coarse, 0),
                   coarse_ao_offset |-> 0,
                   num_dofs_per_proc |-> NumDofsPerProc(lp.fine),
                   num_coarse_dofs_per_proc |-> NumDofsPerProc(lp.coarse)]
         /\ dof_index_data = DofIndexField(lp.fine)
    /\ pc = [r \in Ranks |-> "start"]
    /\ rng = [r \in Ranks |-> NoRange]
    /\ d_nnz = [r \in Ranks |-> <<>>]
    /\ o_nnz = [r \in Ranks |-> <<>>]
    /\ prealloc = [r \in Ranks |-> <<>>]
    /\ mat = [r \in Ranks |-> {}]
    /\ calls = [r \in Ranks |-> <<>>]
    /\ L = [r \in Ranks |-> <<>>]
    /\ is_overlap = <<>>
    /\ is_nonoverlap = <<>>
    /\ is_heap = <<>>
    /\ asm_call = <<>>
    /\ interp = <<>>

ProlongNext ==
    \/ \E r \in Ranks : Prolong_Count(r)
    \/ \E r \in Ranks : Prolong_Create(r)
    \/ \E r \in Ranks : Prolong_SetValues(r)
    \/ \E r \in Ranks : Prolong_Assemble(r)
    \/ \E r \in Ranks : RestrictionScaling(r)

SpecProlong == ProlongInit /\ [][ProlongNext]_vars

----------------------------------------------------------------------------
(* Properties of the transfer operators.                                    *)

(* The fine locations whose row a process sets.                             *)
FineOwned(r) ==
    UNION {{<<p, key>> :
              key \in {k \in DOMAIN dof_index_data[p] :
                         /\ BoxContains(DataBox(cfg.level.patches[p].box, k[1]), k[2])
                         /\ dof_index_data[p][k] >= rng[r].i_fine_lower
                         /\ dof_index_data[p][k] < rng[r].i_fine_upper}} :
           p \in {q \in PatchNums(cfg.level) : cfg.level.patches[q].owner = r}}

ProlongDone(r) == pc[r] \in {"filled", "assembled", "scaled"}

(* The coarse index whose refinement holds fine index i: per axis the one   *)
(* number c with ratio * c <= i < ratio * (c + 1).                          *)
CoarseOf(i) ==
    [k \in 1..NDIM |->
        CHOOSE c \in (cfg.coarse.domain.lo[k] - 1)..(cfg.coarse.domain.hi[k] + 2) :
            cfg.ratio[k] * c <= i[k] /\ i[k] < cfg.ratio[k] * (c + 1)]

(* The number of a coarse cell and component in the lexicographic order of  *)
(* the coarse domain, first axis fastest, components outermost.             *)
LexNumber(I, d) ==
    LexIndex(cfg.coarse.domain, I) + d * BoxSize(cfg.coarse.domain) + cfg.coarse_ao_offset

(* C5: in the volumetric prolongation matrix every fine cell and component  *)
(* has a row of exactly one entry, of weight one, in the column the         *)
(* application ordering gives the lexicographic number of the coarse cell   *)
(* that holds the fine cell (floor division, negative indices too), same    *)
(* component: the DOF of that coarse cell.  No call fails.                  *)
C5_OneCoarseCellPerFineCell ==
    cfg.op = "Prolong_cell" =>
        /\ \A r \in Ranks : pc[r] # "abort"
        /\ \A r \in Ranks : ProlongDone(r) =>
              \A loc \in FineOwned(r) :
                  LET I == CoarseOf(loc[2][2])
                      d == loc[2][3]
                      col == DofOf(cfg.coarse, CELL, I, d)
                  IN  /\ <<LexNumber(I, d), col>> \in cfg.coarse_level_ao
                      /\ Row(mat[r], dof_index_data[loc[1]][loc[2]]) =
                             {<<dof_index_data[loc[1]][loc[2]], col, ROne>>}

C5_Witness ==
    /\ cfg.op = "Prolong_cell"
    /\ cfg.level.depth = 2
    /\ cfg.ratio = IntVec(MaxRatio)
    /\ cfg.coarse.rev
    /\ \A r \in Ranks : pc[r] = "assembled" /\ rng[r].m_local > 0
    /\ \E r \in Ranks : \E loc \in FineOwned(r) :
           /\ loc[2][2][1] < 0 /\ loc[2][2][1] % MaxRatio # 0
           /\ loc[2][3] = 1
           /\ Cardinality(Row(mat[r], dof_index_data[loc[1]][loc[2]])) = 1

(* The calls of the side loop: one per owned fine side and component.       *)
SideCallOf(r, loc) ==
    {n \in DOMAIN calls[r] : calls[r][n].row = dof_index_data[loc[1]][loc[2]]}

(* C6: in the directional prolongation matrix the two weights of every fine *)
(* row, w_L = 1 - (i - ratio * floor(i / ratio)) / ratio along the axis of  *)
(* the side and 1 - w_L, sum to one and lie in [0, 1], negative indices     *)
(* included, for every ratio.                                               *)
C6_WeightsSumToOne ==
    cfg.op = "Prolong_side" =>
        \A r \in Ranks : ProlongDone(r) =>
            /\ \A n \in DOMAIN calls[r] :
                  /\ RAdd(calls[r][n].vals[1], calls[r][n].vals[2]) = ROne
                  /\ \A k \in 1..2 : /\ RLeq(RZero, calls[r][n].vals[k])
                                     /\ RLeq(calls[r][n].vals[k], ROne)
            /\ \A loc \in FineOwned(r) :
                  /\ SideCallOf(r, loc) # {}
                  /\ \A n \in SideCallOf(r, loc) :
                        LET k == loc[2][1] + 1
                            q == cfg.ratio[k]
                        IN  calls[r][n].vals[1] = Rat(q - (loc[2][2][k] % q), q)

C6_Witness ==
    /\ cfg.op = "Prolong_side"
    /\ cfg.ratio = IntVec(MaxRatio)
    /\ \A r \in Ranks : pc[r] = "assembled" /\ rng[r].m_local > 0
    /\ \E r \in Ranks : \E loc \in FineOwned(r) : \E n \in SideCallOf(r, loc) :
           /\ loc[2][2][loc[2][1] + 1] < 0
           /\ calls[r][n].vals = <<Rat(1, MaxRatio), Rat(MaxRatio - 1, MaxRatio)>>

(* C7: in the directional prolongation matrix every fine row has entries in *)
(* exactly two distinct columns, the DOFs of the coarse sides coarsen(i)    *)
(* and coarsen(i) + e_axis of the axis of the fine side, both inside the    *)
(* side-index space of the coarse level for that axis, the fine sides on    *)
(* the upper face of the domain included.                                   *)
C7_TwoBracketingCoarseSides ==
    cfg.op = "Prolong_side" =>
        \A r \in Ranks : ProlongDone(r) =>
            \A loc \in FineOwned(r) :
                LET axis == loc[2][1]
                    I_L == CoarseOf(loc[2][2])
                    I_U == IAdd(I_L, Unit(axis))
                    cols == RowCols(mat[r], dof_index_data[loc[1]][loc[2]])
                IN  /\ BoxContains(toSideBox(cfg.coarse.domain, axis), I_L)
                    /\ BoxContains(toSideBox(cfg.coarse.domain, axis), I_U)
                    /\ Cardinality(cols) = 2
                    /\ cols = {DofOf(cfg.coarse, axis, I_L, loc[2][3]),
                               DofOf(cfg.coarse, axis, I_U, loc[2][3])}

(* The 1-norm of column k of the whole matrix.                              *)
ColumnEntries(k) == {e \in GlobalMat : e[2] = k}
Norm1(k) == RSumAbs(ColumnEntries(k))

AllScaled == \A r \in Ranks : pc[r] = "scaled"
OwnedColumns(r) == rng[r].j_coarse_lower..(rng[r].j_coarse_upper - 1)

(* C8: the restriction scaling has, for every column k of the prolongation  *)
(* matrix, L[k] = 0 when the 1-norm of the column is zero and L[k] = 1 /    *)
(* norm otherwise; nothing is divided by zero and every entry is finite.    *)
C8_ScalingIsInverseNorm ==
    \A r \in Ranks : pc[r] = "scaled" =>
        /\ DOMAIN L[r] = OwnedColumns(r)
        /\ \A k \in OwnedColumns(r) :
              /\ L[r][k][2] # 0
              /\ Norm1(k) = RZero => L[r][k] = RZero
              /\ Norm1(k) # RZero => RMul(L[r][k], Norm1(k)) = ROne

C8_Witness ==
    /\ AllScaled
    /\ cfg.level.nprocs = MaxProcs
    /\ \E r \in Ranks : \E k \in OwnedColumns(r) : Norm1(k) = RZero /\ ColumnEntries(k) = {}
    /\ \E r \in Ranks : \E k \in OwnedColumns(r) : Norm1(k) = RZero /\ ColumnEntries(k) # {}
    /\ \E r \in Ranks : \E k \in OwnedColumns(r) : RLeq(<<2, 1>>, Norm1(k))

RECURSIVE RSumScaled(_, _)
RSumScaled(l, es) ==
    IF es = {} THEN RZero
    ELSE LET e == CHOOSE x \in es : TRUE
         IN  RAdd(RMul(l, e[3]), RSumScaled(l, es \ {e}))

----------------------------------------------------------------------------
(* The subdomain partitioner: constructPatchLevelASMSubdomains, _cell and   *)
(* _side.  cfg holds the level, its number in the hierarchy and box_size;   *)
(* overlap_size is the argument of each call.                               *)
LOWER == 0
UPPER == 1

(* IndexUtilities::partitionPatchBox: cells / box_size sub-boxes along each *)
(* axis, at least one, the last one reaching the end of the patch; the      *)
(* overlapping box is the sub-box grown by overlap_size.                    *)
partitionPatchBox(patch_box, box_size, overlap_size) ==
    LET sub == [k \in 1..NDIM |-> Max(BoxCells(patch_box, k) \div box_size[k], 1)]
    IN  [n \in 1..(sub[1] * sub[2]) |->
            LET I == <<(n - 1) % sub[1], (n - 1) \div sub[1]>>
                lower == [k \in 1..NDIM |-> patch_box.lo[k] + I[k] * box_size[k]]
                upper == [k \in 1..NDIM |->
                             IF I[k] + 1 = sub[k] THEN patch_box.hi[k]
                             ELSE lower[k] + box_size[k] - 1]
            IN  [nonoverlap |-> MkBox(lower, upper),
                 overlap |-> GrowBox(MkBox(lower, upper), overlap_size)]]

(* getTouchesRegularBoundary, lines 1252-1265.                              *)
touches_physical_bdry(p, axis, upperlower) ==
    IF upperlower = UPPER
    THEN cfg.level.patches[p].box.hi[axis + 1] = cfg.level.domain.hi[axis + 1]
    ELSE cfg.level.patches[p].box.lo[axis + 1] = cfg.level.domain.lo[axis + 1]

patch_touches_physical_bdry(p) ==
    \E axis \in Axes, upperlower \in {LOWER, UPPER} : touches_physical_bdry(p, axis, upperlower)

(* CoarseFineBoundary::getBoundaries, codimension 1 (lines 1270-1272): the  *)
(* cells across a face of the patch that lie in the domain and in no patch  *)
(* of the level, each a boundary box; none on level 0.                      *)
cf_codim1_boxes(p) ==
    IF cfg.level_num = 0 THEN {}
    ELSE {bb \in [box : {MkBox(j, j) : j \in BoxPoints(GrowBox(cfg.level.patches[p].box,
                                                              IntVec(1)))},
                  location_index : 0..(2 * NDIM - 1)] :
            LET axis == bb.location_index \div 2
                b == cfg.level.patches[p].box
                j == bb.box.lo
            IN  /\ j[axis + 1] = IF bb.location_index % 2 = UPPER THEN b.hi[axis + 1] + 1
                                 ELSE b.lo[axis + 1] - 1
                /\ \A k \in 1..NDIM : k # axis + 1 => (b.lo[k] <= j[k] /\ j[k] <= b.hi[k])
                /\ BoxContains(cfg.level.domain, j)
                /\ CellPatch(cfg.level, j) = {}}

(* Lines 1273-1296.                                                         *)
patch_touches_cf_bdry(p) == cf_codim1_boxes(p) # {}

touches_cf_bdry(p, axis, upperlower) ==
    \E bb \in cf_codim1_boxes(p) : bb.location_index = 2 * axis + upperlower

upper_side_cf_bdry_box(p, axis) ==
    {bb.box : bb \in {x \in cf_codim1_boxes(p) : x.location_index = 2 * axis + UPPER}}

(* is_cf_bdry_idx, lines 92-101.  The loop goes on while no box holds the   *)
(* index, also beyond the end of the list: it returns true when a box of    *)
(* the list holds the index, and otherwise reads past the end, with any     *)
(* outcome.                                                                 *)
is_cf_bdry_idx(idx, cf_bdry_boxes) ==
    IF \E b \in cf_bdry_boxes : BoxContains(b, idx) THEN {"true"}
    ELSE {"true", "false", "crash"}

(* The sides at which a call of process r reads past the end of the list.   *)
PastEndAmong(vs) ==
    {v \in {vs[n] : n \in DOMAIN vs} :
        /\ v[3][v[2] + 1] = toSideBox(cfg.level.patches[v[1]].box, v[2]).hi[v[2] + 1]
        /\ patch_touches_cf_bdry(v[1])
        /\ touches_cf_bdry(v[1], v[2], UPPER)
        /\ is_cf_bdry_idx(v[3], upper_side_cf_bdry_box(v[1], v[2])) # {"true"}}

PastEndSides(r) ==
    IF cfg.op = "ASM_side" /\ cfg.level_num # 0 THEN PastEndAmong(SCVisits(r)) ELSE {}

(* Lines 1313-1326: is the side i of axis kept in the non-overlapping set.  *)
(* past_end_true holds the sides whose read past the end came out true.     *)
ASM_SideKept(p, box_local, axis, i, past_end_true) ==
    LET at_upper_bdry ==
            i[axis + 1] = toSideBox(cfg.level.patches[p].box, axis).hi[axis + 1]
        at_upper_physical_bdry ==
            at_upper_bdry /\ patch_touches_physical_bdry(p)
                /\ touches_physical_bdry(p, axis, UPPER)
        at_upper_cf_bdry ==
            at_upper_bdry /\ patch_touches_cf_bdry(p) /\ touches_cf_bdry(p, axis, UPPER)
                /\ (is_cf_bdry_idx(i, upper_side_cf_bdry_box(p, axis)) = {"true"}
                    \/ <<p, axis, i>> \in past_end_true)
    IN  ~at_upper_bdry \/ at_upper_physical_bdry \/ at_upper_cf_bdry

(* The DOF indices of the locations of a box, in loop order: lines          *)
(* 1153-1160 and 1311-1331 (b the sub-box) and 1178-1193 and 1354-1371 (b   *)
(* the overlapping box).                                                    *)
CellDofs(p, b) ==
    [n \in 1..(BoxSize(b) * cfg.level.depth) |->
        dof_index_data[p][<<CELL, BoxSeq(b)[((n - 1) \div cfg.level.depth) + 1],
                            (n - 1) % cfg.level.depth>>]]

SideDofs(p, b, axis) ==
    [n \in 1..BoxSize(toSideBox(b, axis)) |->
        dof_index_data[p][<<axis, BoxSeq(toSideBox(b, axis))[n], 0>>]]

SideDofsKept(p, b, axis, past_end_true) ==
    LET sb == BoxSeq(toSideBox(b, axis))
        kept == SelectSeq([n \in 1..Len(sb) |-> n],
                          LAMBDA n : ASM_SideKept(p, b, axis, sb[n], past_end_true))
    IN  [k \in 1..Len(kept) |-> dof_index_data[p][<<axis, sb[kept[k]], 0>>]]

(* std::sort, and std::unique on the sorted vector.                         *)
Sorted(dofs) == SortSeq(dofs, LAMBDA x, y : x < y)
Unique(dofs) ==
    LET first == SelectSeq([n \in 1..Len(dofs) |-> n],
                           LAMBDA n : n = 1 \/ dofs[n] # dofs[n - 1])
    IN  [k \in 1..Len(first) |-> dofs[first[k]]]

box_local_dofs(p, box_local, past_end_true) ==
    IF cfg.op = "ASM_cell" THEN Sorted(CellDofs(p, box_local))
    ELSE Sorted(Flat([a1 \in 1..NDIM |-> SideDofsKept(p, box_local, a1 - 1, past_end_true)]))

box_overlap_dofs_unsorted(p, box_overlap) ==
    Unique(SelectSeq(
        IF cfg.op = "ASM_cell" THEN CellDofs(p, box_overlap)
        ELSE Flat([a1 \in 1..NDIM |-> SideDofs(p, box_overlap, a1 - 1)]),
        LAMBDA dof_idx : dof_idx >= 0))

box_overlap_dofs_positive(p, box_overlap) ==
    Unique(Sorted(SelectSeq(
        IF cfg.op = "ASM_cell" THEN CellDofs(p, box_overlap)
        ELSE Flat([a1 \in 1..NDIM |-> SideDofs(p, box_overlap, a1 - 1)]),
        LAMBDA dof_idx : dof_idx > 0)))

box_overlap_dofs(p, box_overlap) ==
    Unique(Sorted(SelectSeq(
        IF cfg.op = "ASM_cell" THEN CellDofs(p, box_overlap)
        ELSE Flat([a1 \in 1..NDIM |-> SideDofs(p, box_overlap, a1 - 1)]),
        LAMBDA dof_idx : dof_idx >= 0)))

(* The sub-boxes of the patches of a process, in the order of the two       *)
(* loops: lines 1120-1131 and 1218-1229.                                    *)
SubdomainsOf(p, boxes) == [m \in 1..Len(boxes) |-> [p |-> p, boxes |-> boxes[m]]]

SubdomainsAmong(ps, overlap_size) ==
    Flat([n \in 1..Len(ps) |->
            SubdomainsOf(ps[n], partitionPatchBox(cfg.level.patches[ps[n]].box, cfg.box_size,
                                                  overlap_size) \o <<>>)])

Subdomains(r, overlap_size) == SubdomainsAmong(PatchLevelIterator(r), overlap_size)

Count(h, list) == Cardinality({n \in DOMAIN list : list[n] = h})

Destroyed_overlaponly(heap, overlap, nonoverlap) ==
    [h \in DOMAIN heap |-> [heap[h] EXCEPT !.refs = @ - Count(h, overlap)]]

(* ISDestroy on every element of both lists, lines 726-737.                 *)
Destroyed(heap, overlap, nonoverlap) ==
    [h \in DOMAIN heap |->
        [heap[h] EXCEPT !.refs = @ - Count(h, overlap) - Count(h, nonoverlap)]]

(* ISCreateGeneral and PetscObjectReference, lines 1161-1200 and 1332-1379: *)
(* without overlap one object per sub-box, referenced twice; with overlap   *)
(* two objects per sub-box.                                                 *)
Created(subs, there_is_overlap, past_end_true) ==
    IF ~there_is_overlap
    THEN [n \in 1..Len(subs) |->
             [idx |-> box_local_dofs(subs[n].p, subs[n].boxes.nonoverlap, past_end_true),
              refs |-> 2]]
    ELSE [n \in 1..(2 * Len(subs)) |->
             IF n % 2 = 1
             THEN [idx |-> box_local_dofs(subs[(n + 1) \div 2].p,
                                          subs[(n + 1) \div 2].boxes.nonoverlap, past_end_true),
                   refs |-> 1]
             ELSE [idx |-> box_overlap_dofs(subs[n \div 2].p, subs[n \div 2].boxes.overlap),
                   refs |-> 1]]

ASM_Lists_reversed(r, base, nsub, there_is_overlap) ==
    /\ is_nonoverlap' = [is_nonoverlap EXCEPT ![r] =
                            [n \in 1..nsub |-> IF there_is_overlap THEN base + 2 * n - 1
                                               ELSE base + n]]
    /\ is_overlap' = [is_overlap EXCEPT ![r] =
                         [n \in 1..nsub |-> IF there_is_overlap THEN base + 2 * (nsub + 1 - n)
                                            ELSE base + n]]

ASM_Lists(r, base, nsub, there_is_overlap) ==
    /\ is_nonoverlap' = [is_nonoverlap EXCEPT ![r] =
                            [n \in 1..nsub |-> IF there_is_overlap THEN base + 2 * n - 1
                                               ELSE base + n]]
    /\ is_overlap' = [is_overlap EXCEPT ![r] =
                         [n \in 1..nsub |-> IF there_is_overlap THEN base + 2 * n
                                            ELSE base + n]]

ASM_Built(r, subs, there_is_overlap, past_end_true) ==
    /\ is_heap' = [is_heap EXCEPT ![r] =
                      Destroyed(is_heap[r], is_overlap[r], is_nonoverlap[r])
                          \o Created(subs, there_is_overlap, past_end_true)]
    /\ ASM_Lists(r, Len(is_heap[r]), Len(subs), there_is_overlap)

(* The call ends at the read past the end of the list: the old sets are     *)
(* destroyed and the lists cleared by then.                                 *)
ASM_Crashed(r) ==
    /\ is_heap' = [is_heap EXCEPT ![r] =
                      Destroyed(is_heap[r], is_overlap[r], is_nonoverlap[r])]
    /\ is_nonoverlap' = [is_nonoverlap EXCEPT ![r] = <<>>]
    /\ is_overlap' = [is_overlap EXCEPT ![r] = <<>>]

MaxCalls == 2
OverlapSizes == {IntVec(0), <<0, 1>>, IntVec(1)}

(* const bool there_is_overlap = overlap_size.max(), lines 1118 and 1216.   *)
there_is_overlap_min(overlap_size) == Min(overlap_size[1], overlap_size[2]) # 0

there_is_overlap(overlap_size) == Max(overlap_size[1], overlap_size[2]) # 0

(* One call of constructPatchLevelASMSubdomains by process r, lines         *)
(* 716-761, 1108-1204 and 1206-1383.                                        *)
ASM_Call(r, overlap_size, past_end) ==
    \E outcome \in (IF past_end # {} THEN {"crash"} ELSE {}) \cup {"done"} :
        \E past_end_true \in (IF outcome = "crash" THEN {{}} ELSE SUBSET past_end) :
            /\ IF outcome = "crash" THEN ASM_Crashed(r)
               ELSE ASM_Built(r, Subdomains(r, overlap_size),
                              there_is_overlap(overlap_size), past_end_true)
            /\ pc' = [pc EXCEPT ![r] = IF outcome = "crash" THEN "abort" ELSE "partitioned"]
            /\ asm_call' = [asm_call EXCEPT ![r] =
                               [ncalls |-> @.ncalls + 1, overlap_size |-> overlap_size,
                                past_end_true |-> past_end_true,
                                dof_index_var |-> cfg.level.centering]]

(* The index variable is neither cell- nor side-centred: the old sets are   *)
(* destroyed and the lists cleared (lines 726-737) before the centering is  *)
(* looked at, then TBOX_ERROR (lines 756-759).                              *)
ASM_Unsupported(r, dof_index_var) ==
    /\ ASM_Crashed(r)
    /\ pc' = [pc EXCEPT ![r] = "abort"]
    /\ asm_call' = [asm_call EXCEPT ![r] =
                       [@ EXCEPT !.ncalls = @ + 1, !.dof_index_var = dof_index_var]]

ASMSubdomains(r) ==
    /\ pc[r] # "abort"
    /\ asm_call[r].ncalls < MaxCalls
    /\ \E dof_index_var \in {cfg.level.centering, "NODE"} :
          IF dof_index_var \in {"CELL", "SIDE"}
          THEN \E overlap_size \in OverlapSizes : ASM_Call(r, overlap_size, PastEndSides(r))
          ELSE ASM_Unsupported(r, dof_index_var)
    /\ UNCHANGED <<cfg, dof_index_data, rng, d_nnz, o_nnz, prealloc, mat, calls, L, interp>>

(* Levels for the partitioner: level 0 covers the domain; a finer level     *)
(* covers part of it, one patch in the lower corner and next to it, or not, *)
(* a second patch along part of its upper face.                             *)
ASMDomains == {MkBox(<<0, 0>>, <<nx - 1, ny - 1>>) : nx \in 1..MaxN, ny \in 1..MaxN}

ASMLevels0 ==
    UNION {{l \in LevelsOn(dom, 1, n, cd[1], cd[2], 1) : ~l.rev} :
           dom \in {d \in ASMDomains : BoxCells(d, 1) >= BoxCells(d, 2)},
           n \in 1..MaxProcs, cd \in {<<"CELL", 1>>, <<"CELL", 2>>, <<"SIDE", 1>>}}

ASMLevels1 ==
    UNION {{LevelOf(MkBox(<<0, 0>>, <<MaxN - 1, MaxN - 1>>), bs, ow, n, cd[1], cd[2], FALSE) :
              ow \in [1..Len(bs) -> 0..(n - 1)]} :
           bs \in {<<MkBox(<<0, 0>>, <<1, 1>>)>>,
                   <<MkBox(<<0, 0>>, <<1, 1>>), MkBox(<<2, 0>>, <<2, 0>>)>>,
                   <<MkBox(<<0, 0>>, <<1, 1>>), MkBox(<<0, 2>>, <<1, 2>>)>>},
           n \in 1..MaxProcs, cd \in {<<"CELL", 1>>, <<"SIDE", 1>>}}

BoxSizes == {<<1, 1>>, <<2, 1>>, <<2, 2>>}

ASMInit ==
    /\ \E level_num \in {0, 1} :
         \E level \in (IF level_num = 0 THEN ASMLevels0 ELSE ASMLevels1), box_size \in BoxSizes :
           /\ cfg = [op |-> IF level.centering = "CELL" THEN "ASM_cell" ELSE "ASM_side",
                     level |-> level,
                     level_num |-> level_num,
                     box_size |-> box_size,
                     num_dofs_per_proc |-> NumDofsPerProc(level)]
           /\ dof_index_data = DofIndexField(level)
    /\ pc = [r \in Ranks |-> "start"]
    /\ is_overlap = [r \in Ranks |-> <<>>]
    /\ is_nonoverlap = [r \in Ranks |-> <<>>]
    /\ is_heap = [r \in Ranks |-> <<>>]
    /\ asm_call = [r \in Ranks |-> [ncalls |-> 0, overlap_size |-> IntVec(0),
                                    past_end_true |-> {},
                                    dof_index_var |-> cfg.level.centering]]
    /\ rng = <<>>
    /\ d_nnz = <<>>
    /\ o_nnz = <<>>
    /\ prealloc = <<>>
    /\ mat = <<>>
    /\ calls = <<>>
    /\ L = <<>>
    /\ interp = <<>>

ASMNext == \E r \in Ranks : ASMSubdomains(r)

SpecASM == ASMInit /\ [][ASMNext]_vars

----------------------------------------------------------------------------
(* Properties of the subdomain partitioner.                                 *)

(* The DOFs a patch is the master of.                                       *)
OwnedDofs(p) ==
    {dof_index_data[p][key] :
        key \in {k \in DOMAIN dof_index_data[p] :
                   /\ BoxContains(DataBox(cfg.level.patches[p].box, k[1]), k[2])
                   /\ MasterPatch(cfg.level, k[1], k[2]) = p}}

(* The entries of the lists of process r that belong to the sub-boxes of    *)
(* patch p, and the DOFs of the non-overlapping set of entry n.             *)
EntriesOf(r, p) ==
    {n \in DOMAIN is_nonoverlap[r] : Subdomains(r, asm_call[r].overlap_size)[n].p = p}

NonoverlapSet(r, n) ==
    {is_heap[r][is_nonoverlap[r][n]].idx[k] :
        k \in DOMAIN is_heap[r][is_nonoverlap[r][n]].idx}

(* C10: for every owned box, cell- and side-centred, the non-overlapping    *)
(* index sets of its sub-boxes are pairwise disjoint and their union is the *)
(* set of DOFs the box owns; a side DOF on a face shared by two sub-boxes   *)
(* of the box is in exactly one of the sets.                                *)
C10_NonoverlapSetsPartitionBox ==
    \A r \in Ranks : pc[r] = "partitioned" =>
        \A p \in {q \in PatchNums(cfg.level) : cfg.level.patches[q].owner = r} :
            /\ \A n1, n2 \in EntriesOf(r, p) :
                  n1 # n2 => NonoverlapSet(r, n1) \cap NonoverlapSet(r, n2) = {}
            /\ UNION {NonoverlapSet(r, n) : n \in EntriesOf(r, p)} = OwnedDofs(p)

(* The index-set objects of process r that are still referenced.            *)
LiveObjects(r) == {h \in DOMAIN is_heap[r] : is_heap[r][h].refs > 0}

(* C11: when every component of the overlap size is zero, the overlapping   *)
(* and the non-overlapping list entry of every sub-box are one index-set    *)
(* object, constructed once and referenced twice; when a component is       *)
(* positive they are two objects, each constructed for its list.            *)
C11_OneObjectIffNoOverlap ==
    \A r \in Ranks : pc[r] = "partitioned" =>
        IF asm_call[r].overlap_size = IntVec(0)
        THEN /\ \A n \in DOMAIN is_nonoverlap[r] :
                   /\ is_overlap[r][n] = is_nonoverlap[r][n]
                   /\ is_heap[r][is_nonoverlap[r][n]].refs = 2
             /\ Cardinality(LiveObjects(r)) = Len(is_nonoverlap[r])
        ELSE /\ \A n \in DOMAIN is_nonoverlap[r] :
                   /\ is_overlap[r][n] # is_nonoverlap[r][n]
                   /\ is_heap[r][is_nonoverlap[r][n]].refs = 1
                   /\ is_heap[r][is_overlap[r][n]].refs = 1
             /\ Cardinality(LiveObjects(r)) = 2 * Len(is_nonoverlap[r])

C11_Witness ==
    /\ cfg.level.nprocs = MaxProcs
    /\ \E r \in Ranks :
           /\ asm_call[r].ncalls = 2 /\ asm_call[r].overlap_size = <<0, 1>>
           /\ pc[r] = "partitioned" /\ Len(is_nonoverlap[r]) >= 2
    /\ \E r \in Ranks :
           /\ asm_call[r].ncalls = 2 /\ asm_call[r].overlap_size = IntVec(0)
           /\ pc[r] = "partitioned" /\ Len(is_nonoverlap[r]) >= 2
           /\ Cardinality(LiveObjects(r)) < Len(is_heap[r])

(* The sides of axis on the upper face of box b.                            *)
UpperFaceSides(b, axis) ==
    {i \in BoxPoints(toSideBox(b, axis)) : i[axis + 1] = b.hi[axis + 1] + 1}

(* The side i of axis lies on the upper end of the physical domain, or on   *)
(* a coarse-fine interface: the cell above it is in the domain and in no    *)
(* patch of a level that is not the coarsest.                               *)
OnPhysicalBoundary(axis, i) == i[axis + 1] = cfg.level.domain.hi[axis + 1] + 1

OnCoarseFineInterface(i) ==
    /\ cfg.level_num # 0
    /\ BoxContains(cfg.level.domain, i)
    /\ CellPatch(cfg.level, i) = {}

(* C12: in the side-centred partitioner a DOF on the upper face of a        *)
(* sub-box along its own axis is in the non-overlapping set of that sub-box *)
(* if and only if the face lies on the physical boundary or on a            *)
(* coarse-fine interface; on a face interior to the patch, or shared with   *)
(* another patch, it is not in the set.                                     *)
C12_UpperFaceKeptIffBoundary ==
    cfg.op = "ASM_side" =>
        \A r \in Ranks : pc[r] = "partitioned" =>
            \A n \in DOMAIN is_nonoverlap[r] : \A axis \in Axes :
                \A i \in UpperFaceSides(Subdomains(r, asm_call[r].overlap_size)[n].boxes.nonoverlap,
                                        axis) :
                    dof_index_data[Subdomains(r, asm_call[r].overlap_size)[n].p][<<axis, i, 0>>]
                            \in NonoverlapSet(r, n)
                        <=> (OnPhysicalBoundary(axis, i) \/ OnCoarseFineInterface(i))

----------------------------------------------------------------------------
(* The scattered-point interpolation assembler:                             *)
(* constructPatchLevelSCInterpOp.  The call record holds the level, the     *)
(* physical-domain boxes of the level, the kernel width interp_stencil the  *)
(* caller passes, the point coordinates X of every process (the local part  *)
(* of X_vec) and whether the build defines NDEBUG.  A coordinate is a whole *)
(* number of 1 / Quarters of a cell width, counted from x_lower.            *)

Quarters == 4

(* IndexUtilities::getCellIndex: the cell the point lies in.                *)
getCellIndex(X, domain_lower) ==
    [k \in 1..NDIM |-> domain_lower[k] + (X[k] \div Quarters)]

(* Line 408: an odd width is made even.                                     *)
Interp_Width(interp_stencil) ==
    IF interp_stencil % 2 # 0 THEN interp_stencil + 1 ELSE interp_stencil

(* Lines 505-523: the stencil box of component axis.  X_cell is the centre  *)
(* of the cell X_idx (lines 467-474); X[d] <= X_cell[d] is compared in      *)
(* halves of 1 / Quarters.                                                  *)
Interp_StencilBox_noshift(X, X_idx, domain_lower, axis, w) ==
    LET lower == [k \in 1..NDIM |-> X_idx[k] - (w \div 2) + 1]
    IN  MkBox(lower, [k \in 1..NDIM |-> lower[k] + w - 1])

Interp_StencilBox(X, X_idx, domain_lower, axis, w) ==
    LET lower == [k \in 1..NDIM |->
                    IF k = axis + 1 THEN X_idx[k] - (w \div 2) + 1
                    ELSE IF 2 * X[k] <= Quarters * (2 * (X_idx[k] - domain_lower[k]) + 1)
                         THEN X_idx[k] - (w \div 2)
                         ELSE X_idx[k] - (w \div 2) + 1]
    IN  MkBox(lower, [k \in 1..NDIM |-> lower[k] + w - 1])

BoxIntersects(a, b) == \A k \in 1..NDIM : a.lo[k] <= b.hi[k] /\ b.lo[k] <= a.hi[k]
BoxWithin(a, b) == \A k \in 1..NDIM : b.lo[k] <= a.lo[k] /\ a.hi[k] <= b.hi[k]

(* BoxTree::findOverlapIndices: the patches of the level that meet the box. *)
findOverlapIndices(level, box) ==
    {p \in PatchNums(level) : BoxIntersects(level.patches[p].box, box)}

(* Lines 476-486: the search for the cell of the point and, when that finds *)
(* nothing, one search for the cell grown by one.                           *)
Interp_Locate(level, X_idx) ==
    LET first == findOverlapIndices(level, MkBox(X_idx, X_idx))
    IN  IF first # {} THEN [nsearch |-> 1, found |-> first]
        ELSE [nsearch |-> 2,
              found |-> findOverlapIndices(level, GrowBox(MkBox(X_idx, X_idx), IntVec(1)))]

(* The kernel the caller supplies, of its own width: the weight of the one  *)
(* line (width 1), or the linear weights 1 - |r - j| of the lines j = 0,    *)
(* 1, ... at distance below 1 from the point and 0 for the others (an even  *)
(* width).  The weight array has the width of the call (line 562) and       *)
(* starts at zero.                                                          *)
interp_fcn(width, r) ==
    IF width = 1 THEN <<ROne>>
    ELSE [j \in 1..width |->
             LET dist == RAbs(RSub(r, Rat(j - 1, 1)))
             IN  IF RLeq(dist, ROne) THEN RSub(ROne, dist) ELSE RZero]

Interp_Weights(width, w, r) ==
    [j \in 1..w |-> IF j <= width THEN interp_fcn(width, r)[j] ELSE RZero]

(* Lines 573-579: the offset of the point from the lowest stencil line      *)
(* along direction k, a face along the component axis and a cell centre     *)
(* along the others, in cell widths.                                        *)
Interp_Offset(X, sb, domain_lower, axis, k) ==
    Rat(2 * X[k] - Quarters * (2 * (sb.lo[k] - domain_lower[k])
                                + (IF k = axis + 1 THEN 0 ELSE 1)),
        2 * Quarters)

(* Lines 567-602: the MatSetValues call of one point and component.         *)
Interp_RowAt(row, X, sb, p, domain_lower, axis, width, w) ==
    LET w1 == Interp_Weights(width, w, Interp_Offset(X, sb, domain_lower, axis, 1))
        w2 == Interp_Weights(width, w, Interp_Offset(X, sb, domain_lower, axis, 2))
        bs == BoxSeq(sb)
    IN  [row |-> row,
         cols |-> [n \in 1..Len(bs) |-> dof_index_data[p][<<axis, bs[n], 0>>]],
         vals |-> [n \in 1..Len(bs) |->
                     RMul(w1[bs[n][1] - sb.lo[1] + 1], w2[bs[n][2] - sb.lo[2] + 1])]]

(* Lines 436-447: the sizes and ranges of the call on process r.            *)
InterpRanges(r) ==
    LET m_local == NDIM * Len(cfg.X[r])
        i_lower == SumOver([s \in Ranks |-> IF s < r THEN NDIM * Len(cfg.X[s]) ELSE 0], Ranks)
        j_lower == AccumulateTo(cfg.num_dofs_per_proc, r)
    IN  [m_local |-> m_local, i_lower |-> i_lower, i_upper |-> i_lower + m_local,
         n_local |-> cfg.num_dofs_per_proc[r], j_lower |-> j_lower,
         j_upper |-> j_lower + cfg.num_dofs_per_proc[r],
         n_total |-> AccumulateTo(cfg.num_dofs_per_proc, cfg.level.nprocs)]

(* The calls of process r, point by point and axis by axis, for the boxes   *)
(* patch_num the search gave.                                               *)
Interp_Rows(r, patch_num, domain_lower, w) ==
    [n \in 1..(NDIM * Len(cfg.X[r])) |->
        LET k == (n - 1) \div NDIM + 1
            axis == (n - 1) % NDIM
            X == cfg.X[r][k]
        IN  Interp_RowAt(InterpRanges(r).i_lower + n - 1, X,
                         Interp_StencilBox(X, getCellIndex(X, domain_lower),
                                           domain_lower, axis, w),
                         patch_num[k], domain_lower, axis, cfg.interp_stencil, w)]

(* Lines 528-535: the counts of one row.                                    *)
Interp_CountRow(call, R) ==
    LET d == Cardinality({n \in 1..Len(call.cols) :
                            call.cols[n] >= R.j_lower /\ call.cols[n] < R.j_upper})
    IN  [d |-> Min(R.n_local, d),
         o |-> Min(R.n_total - R.n_local, Len(call.cols) - d)]

NoInterp == [interp_stencil |-> 0, domain_lower |-> <<>>, nsearch |-> <<>>,
             patch_num |-> <<>>, empty_read |-> FALSE]

(* Lines 408-535.  With the assertions compiled out (NDEBUG) a level with   *)
(* several domain boxes is taken by its first box, and the box number of a  *)
(* point no search found is read from an empty array: the call crashes or   *)
(* goes on with a number no search gave ("undefined", not followed).        *)
Interp_Count(r) ==
    /\ pc[r] = "start"
    /\ mat' = [mat EXCEPT ![r] = {}]
    /\ LET w == Interp_Width(cfg.interp_stencil)
           R == InterpRanges(r)
       IN  IF ~cfg.ndebug /\ Len(cfg.domain_boxes) # 1
           THEN /\ pc' = [pc EXCEPT ![r] = "abort"]
                /\ interp' = [interp EXCEPT ![r] = [NoInterp EXCEPT !.interp_stencil = w]]
                /\ UNCHANGED <<rng, d_nnz, o_nnz>>
           ELSE LET domain_lower == cfg.domain_boxes[1].lo
                    locs == [k \in 1..Len(cfg.X[r]) |->
                                Interp_Locate(cfg.level, getCellIndex(cfg.X[r][k], domain_lower))]
                    lost == {k \in 1..Len(cfg.X[r]) : locs[k].found = {}}
                IN  IF lost # {}
                    THEN LET k0 == CHOOSE k \in lost : \A k2 \in lost : k <= k2
                         IN  /\ \E outcome \in IF cfg.ndebug THEN {"crash", "undefined"}
                                               ELSE {"abort"} :
                                    pc' = [pc EXCEPT ![r] = outcome]
                             /\ interp' = [interp EXCEPT ![r] =
                                    [interp_stencil |-> w, domain_lower |-> domain_lower,
                                     nsearch |-> [k \in 1..k0 |-> locs[k].nsearch],
                                     patch_num |-> <<>>, empty_read |-> cfg.ndebug]]
                             /\ UNCHANGED <<rng, d_nnz, o_nnz>>
                    ELSE \E patch_num \in [1..Len(cfg.X[r]) -> PatchNums(cfg.level)] :
                           /\ \A k \in 1..Len(cfg.X[r]) : patch_num[k] \in locs[k].found
                           /\ LET rows == Interp_Rows(r, patch_num, domain_lower, w)
                                  nnz == [n \in 1..Len(rows) |-> Interp_CountRow(rows[n], R)]
                              IN  /\ d_nnz' = [d_nnz EXCEPT ![r] =
                                                 [n \in 0..(R.m_local - 1) |-> nnz[n + 1].d]]
                                  /\ o_nnz' = [o_nnz EXCEPT ![r] =
                                                 [n \in 0..(R.m_local - 1) |-> nnz[n + 1].o]]
                           /\ rng' = [rng EXCEPT ![r] = R]
                           /\ interp' = [interp EXCEPT ![r] =
                                  [interp_stencil |-> w, domain_lower |-> domain_lower,
                                   nsearch |-> [k \in 1..Len(cfg.X[r]) |-> locs[k].nsearch],
                                   patch_num |-> patch_num, empty_read |-> FALSE]]
                           /\ pc' = [pc EXCEPT ![r] = "counted"]
    /\ UNCHANGED <<cfg, dof_index_data, prealloc, calls, L,
                   is_overlap, is_nonoverlap, is_heap, asm_call>>

Interp_Create_skipempty(r) ==
    /\ pc[r] = "counted"
    /\ \A s \in Ranks : pc[s] # "start"
    /\ IF rng[r].m_local = 0
       THEN pc' = [pc EXCEPT ![r] = "returned"] /\ UNCHANGED prealloc
       ELSE /\ prealloc' = [prealloc EXCEPT ![r] =
                               [m |-> rng[r].m_local, n |-> rng[r].n_local,
                                d_nnz |-> d_nnz[r], o_nnz |-> o_nnz[r]]]
            /\ pc' = [pc EXCEPT ![r] = "created"]
    /\ UNCHANGED <<cfg, dof_index_data, rng, d_nnz, o_nnz, mat, calls, L,
                   is_overlap, is_nonoverlap, is_heap, asm_call, interp>>

(* MatCreateAIJ, collective: lines 538-542.                                 *)
Interp_Create(r) ==
    /\ pc[r] = "counted"
    /\ \A s \in Ranks : pc[s] # "start"
    /\ prealloc' = [prealloc EXCEPT ![r] =
                       [m |-> rng[r].m_local, n |-> rng[r].n_local,
                        d_nnz |-> IF rng[r].m_local # 0 THEN d_nnz[r] ELSE "NULL",
                        o_nnz |-> IF rng[r].m_local # 0 THEN o_nnz[r] ELSE "NULL"]]
    /\ pc' = [pc EXCEPT ![r] = "created"]
    /\ UNCHANGED <<cfg, dof_index_data, rng, d_nnz, o_nnz, mat, calls, L,
                   is_overlap, is_nonoverlap, is_heap, asm_call, interp>>

Interp_Set(r, rows, done) ==
    /\ mat' = [mat EXCEPT ![r] = MatSetAll(mat[r], done)]
    /\ calls' = [calls EXCEPT ![r] = done]
    /\ pc' = [pc EXCEPT ![r] = IF Len(done) < Len(rows) THEN "abort" ELSE "filled"]

(* Lines 545-609: one MatSetValues call per point and component, the error  *)
(* code of each checked.                                                    *)
Interp_SetValues(r) ==
    /\ pc[r] = "created"
    /\ LET rows == Interp_Rows(r, interp[r].patch_num, interp[r].domain_lower,
                               interp[r].interp_stencil)
       IN  Interp_Set(r, rows,
                      CallsDone(rows, SumOver([s \in Ranks |-> NDIM * Len(cfg.X[s])], Ranks),
                                rng[r].n_total))
    /\ UNCHANGED <<cfg, dof_index_data, rng, d_nnz, o_nnz, prealloc, L,
                   is_overlap, is_nonoverlap, is_heap, asm_call, interp>>

(* MatAssemblyBegin/End, collective: lines 614-617.                         *)
Interp_Assemble(r) ==
    /\ pc[r] = "filled"
    /\ \A s \in Ranks : pc[s] \in {"filled", "assembled"}
    /\ pc' = [pc EXCEPT ![r] = "assembled"]
    /\ UNCHANGED <<cfg, dof_index_data, rng, d_nnz, o_nnz, prealloc, mat, calls, L,
                   is_overlap, is_nonoverlap, is_heap, asm_call, interp>>

(* The calls the model makes: a side-centred level of depth 1 and ghost     *)
(* width 1 on a domain of 2 x 2 cells; widths 1, 2 and 4; at most MaxPoints *)
(* points, on one process.  A point lies in a cell of a patch of its        *)
(* process (below, at or above the cell centre, next to the boundary of the *)
(* domain or away from it), or on the upper boundary of the domain, or far  *)
(* from every patch; the stencil boxes of a point that is found lie in the  *)
(* ghost box of the patch (the assertion of line 525).                      *)
MaxPoints == 1
PointCoords == {1, Quarters \div 2, Quarters + 1, 2 * Quarters - 1, 2 * Quarters}
FarPoint == IntVec(4 * Quarters)
InterpDomain == MkBox(<<0, 0>>, <<1, 1>>)
InterpLevels ==
    {l \in UNION {LevelsOn(InterpDomain, 1, n, "SIDE", 1, 1) : n \in 1..MaxProcs} : ~l.rev}

Interp_PointOK(level, r, X, w) ==
    LET X_idx == getCellIndex(X, level.domain.lo)
    IN  \A p \in Interp_Locate(level, X_idx).found :
           /\ level.patches[p].owner = r
           /\ \A axis \in Axes :
                 BoxWithin(Interp_StencilBox(X, X_idx, level.domain.lo, axis, w),
                           toSideBox(GrowBox(level.patches[p].box, IntVec(level.gcw)), axis))

PointSeqs(level, r, w) ==
    UNION {[1..n -> {X \in (PointCoords \X PointCoords) \cup {FarPoint} :
                        Interp_PointOK(level, r, X, w)}] : n \in 0..MaxPoints}

(* The physical domain of the level: one box, or two boxes side by side.    *)
InterpDomainBoxes(dom) ==
    {bs \in SplitBoxes(dom, 1) : Len(bs) = 1 \/ bs[1].hi[1] < dom.hi[1]}

InterpWidths == {1, 2, 4}

InterpInit ==
    /\ \E level \in InterpLevels, interp_stencil \in InterpWidths, ndebug \in BOOLEAN :
         \E domain_boxes \in InterpDomainBoxes(level.domain), holder \in 0..(level.nprocs - 1) :
           \E X \in PointSeqs(level, holder, Interp_Width(interp_stencil)) :
             /\ cfg = [op |-> "SCInterp", level |-> level, domain_boxes |-> domain_boxes,
                       interp_stencil |-> interp_stencil, ndebug |-> ndebug,
                       X |-> [r \in 0..(level.nprocs - 1) |->
                                IF r = holder THEN X ELSE <<>>],
                       num_dofs_per_proc |-> NumDofsPerProc(level)]
             /\ dof_index_data = DofIndexField(level)
    /\ pc = [r \in Ranks |-> "start"]
    /\ rng = [r \in Ranks |-> NoRange]
    /\ d_nnz = [r \in Ranks |-> <<>>]
    /\ o_nnz = [r \in Ranks |-> <<>>]
    /\ prealloc = [r \in Ranks |-> <<>>]
    /\ mat = [r \in Ranks |-> {<<0, 0, ROne>>}]
    /\ calls = [r \in Ranks |-> <<>>]
    /\ interp = [r \in Ranks |-> NoInterp]
    /\ L = <<>>
    /\ is_overlap = <<>>
    /\ is_nonoverlap = <<>>
    /\ is_heap = <<>>
    /\ asm_call = <<>>

InterpNext ==
    \/ \E r \in Ranks : Interp_Count(r)
    \/ \E r \in Ranks : Interp_Create(r)
    \/ \E r \in Ranks : Interp_SetValues(r)
    \/ \E r \in Ranks : Interp_Assemble(r)

SpecInterp == InterpInit /\ [][InterpNext]_vars

----------------------------------------------------------------------------
(* Properties of the scattered-point interpolation assembler.               *)

InterpDone(r) == pc[r] \in {"filled", "assembled"}

RECURSIVE RowSum(_)
RowSum(es) ==
    IF es = {} THEN RZero
    ELSE LET e == CHOOSE x \in es : TRUE IN RAdd(e[3], RowSum(es \ {e}))

(* C13: with a kernel whose weights sum to 1 for every offset, every row of *)
(* the interpolation matrix sums to 1, for a point in the interior and for  *)
(* a point whose stencil box reaches the ghost locations at the boundary    *)
(* of the domain alike.                                                     *)
C13_RowsSumToOne ==
    \A r \in Ranks : (cfg.op = "SCInterp" /\ InterpDone(r)) =>
        \A row \in rng[r].i_lower..(rng[r].i_upper - 1) :
            RowSum(Row(mat[r], row)) = ROne

(* C14: a call of the interpolation assembler with an odd interp_stencil    *)
(* ends in a fatal error on every process that has begun it: no matrix is   *)
(* allocated and the width the call works with is never another value than  *)
(* the one passed.                                                          *)
C14_OddWidthRejected ==
    \A r \in Ranks :
        (cfg.op = "SCInterp" /\ cfg.interp_stencil % 2 # 0 /\ pc[r] # "start") =>
            /\ pc[r] = "abort"
            /\ prealloc[r] = <<>>
            /\ interp[r].interp_stencil \in {0, cfg.interp_stencil}

(* The points of process r that neither search finds in a box.              *)
Interp_Lost(r) ==
    {k \in 1..Len(cfg.X[r]) :
        Interp_Locate(cfg.level,
                      getCellIndex(cfg.X[r][k], cfg.domain_boxes[1].lo)).found = {}}

(* C15: the box search is made at most twice for a point, and when both     *)
(* searches of a point find no box the call has ended in a fatal error      *)
(* without a box number being read from the empty result.                   *)
C15_TwoSearchesThenFatal ==
    \A r \in Ranks : (cfg.op = "SCInterp" /\ pc[r] # "start") =>
        /\ \A k \in DOMAIN interp[r].nsearch : interp[r].nsearch[k] \in 1..2
        /\ Interp_Lost(r) # {} => (pc[r] = "abort" /\ ~interp[r].empty_read)

(* C17: when the level has a number of physical-domain boxes other than     *)
(* one, a call of the interpolation assembler has ended in a fatal error    *)
(* on every process that has begun it, and the first domain box was not     *)
(* read.                                                                    *)
C17_OneDomainBoxOrFatal ==
    \A r \in Ranks :
        (cfg.op = "SCInterp" /\ Len(cfg.domain_boxes) # 1 /\ pc[r] # "start") =>
            /\ pc[r] = "abort"
            /\ interp[r].domain_lower = <<>>

----------------------------------------------------------------------------
(* C16: a call of constructPatchLevelASMSubdomains with an index variable   *)
(* that is neither cell- nor side-centred ends in a fatal error and leaves  *)
(* the two lists and the index sets in them as they were before the call.   *)
C16_UnsupportedLeavesLists ==
    [][\A r \in Ranks :
          (asm_call'[r].ncalls # asm_call[r].ncalls
              /\ asm_call'[r].dof_index_var \notin {"CELL", "SIDE"}) =>
            /\ pc'[r] = "abort"
            /\ is_overlap'[r] = is_overlap[r]
            /\ is_nonoverlap'[r] = is_nonoverlap[r]
            /\ is_heap'[r] = is_heap[r]]_vars

----------------------------------------------------------------------------
(* The matrix assemblers together: a run is one collective call of one of   *)
(* them (the stencil operator, the transfer operator followed by its        *)
(* restriction scaling, the interpolation operator) by every process of the *)
(* group, on a level of at most MaxCells cells.  Every process runs its     *)
(* call on; a collective step waits for the other processes.                *)
MaxCells == 4
AssemblersInit ==
    /\ StencilInit \/ ProlongInit \/ InterpInit
    /\ BoxSize(cfg.level.domain) <= MaxCells

AssemblersNext ==
    \/ cfg.op \in {"CCLaplace", "SCLaplace"} /\ StencilNext
    \/ cfg.op \in {"Prolong_cell", "Prolong_side"} /\ ProlongNext
    \/ cfg.op = "SCInterp" /\ InterpNext

SpecAssemblers == AssemblersInit /\ [][AssemblersNext]_vars

Finalized(r) == pc[r] \in {"assembled", "scaled"}
Fatal(r) == pc[r] \in {"abort", "crash", "undefined"}

(* Process r has a step to take: it is inside its call and not waiting in a *)
(* collective step (MatCreateAIJ, MatAssemblyBegin/End, MatGetColumnNorms)  *)
(* for a process that has not reached it.                                   *)
CanStep(r) ==
    \/ pc[r] \in {"start", "created"}
    \/ pc[r] = "counted" /\ \A s \in Ranks : pc[s] # "start"
    \/ pc[r] = "filled" /\ \A s \in Ranks : pc[s] \in {"filled", "assembled"}
    \/ /\ pc[r] = "assembled" /\ cfg.op \in {"Prolong_cell", "Prolong_side"}
       /\ \A s \in Ranks : pc[s] \in {"assembled", "scaled"}

Phases ==
    {"start", "counted", "created", "filled", "assembled", "scaled",
     "abort", "crash", "undefined"}

(* Process r moves on to another phase of its call.                         *)
Runs(r) ==
    /\ r \in Ranks
    /\ CanStep(r)
    /\ \E ph \in Phases \ {pc[r]} : pc' = [pc EXCEPT ![r] = ph]

(* Every process of the group is a running program: one that has a step to  *)
(* take takes it in the end.                                                *)
FairSpecAssemblers ==
    SpecAssemblers /\ \A r \in 0..(MaxProcs - 1) : WF_pc(Runs(r))

(* C18: a process declares its nonzero counts only before the allocation,   *)
(* allocates once and only after the counts, inserts values only between    *)
(* the allocation and the finalize, and finalizes once and only after the   *)
(* insertions; after the finalize counts, allocation and values stay.       *)
C18_CountAllocateInsertFinalize ==
    [][\A r \in Ranks :
          /\ (d_nnz'[r] # d_nnz[r] \/ o_nnz'[r] # o_nnz[r]) =>
                (pc[r] = "start" /\ prealloc[r] = <<>> /\ calls[r] = <<>>)
          /\ (pc'[r] = "created" /\ pc[r] # "created") =>
                (pc[r] = "counted" /\ prealloc[r] = <<>> /\ prealloc'[r] # <<>>)
          /\ prealloc'[r] # prealloc[r] => (pc[r] = "counted" /\ pc'[r] = "created")
          /\ calls'[r] # calls[r] => (pc[r] = "created" /\ prealloc[r] # <<>>)
          /\ mat'[r] # mat[r] => pc[r] \in {"start", "created"}
          /\ (Finalized(r)' /\ ~Finalized(r)) => (pc[r] = "filled" /\ pc'[r] = "assembled")
          /\ Finalized(r) =>
                /\ Finalized(r)'
                /\ <<d_nnz[r], o_nnz[r], prealloc[r], calls[r], mat[r]>>'
                       = <<d_nnz[r], o_nnz[r], prealloc[r], calls[r], mat[r]>>]_vars

C18_Witness ==
    /\ cfg.op = "Prolong_side"
    /\ cfg.level.nprocs = MaxProcs
    /\ \A r \in Ranks : pc[r] = "scaled" /\ Len(calls[r]) > 1 /\ prealloc[r].m > 1

(* C19: no step of an assembler call changes the inputs of the call: the    *)
(* levels, the DOF-count vectors, the point coordinates and the DOF Index   *)
(* Field stay as they are, and the restriction scaling leaves the           *)
(* prolongation matrix as it is.                                            *)
C19_InputsUnchanged ==
    [][/\ cfg' = cfg
       /\ dof_index_data' = dof_index_data
       /\ \A r \in Ranks : pc'[r] = "scaled" => mat' = mat]_vars

C19_Witness ==
    \/ /\ cfg.op = "SCInterp"
       /\ \A r \in Ranks : pc[r] = "assembled"
       /\ \E r \in Ranks : Len(cfg.X[r]) > 0 /\ mat[r] # {}
    \/ /\ cfg.op = "Prolong_cell"
       /\ \A r \in Ranks : pc[r] = "scaled" /\ mat[r] # {} /\ Len(L[r]) > 0

(* C20: in a collective call a process with no local rows passes null count *)
(* buffers to the allocation and one with local rows passes its counts;     *)
(* no process allocates or finalizes a second time; and unless a process    *)
(* ends in a fatal error, every process reaches the end of the finalize.    *)
C20_EveryProcessAllocatesAndFinalizes ==
    /\ [](\A r \in Ranks : prealloc[r] # <<>> =>
              IF prealloc[r].m = 0
              THEN prealloc[r].d_nnz = "NULL" /\ prealloc[r].o_nnz = "NULL"
              ELSE prealloc[r].d_nnz = d_nnz[r] /\ prealloc[r].o_nnz = o_nnz[r])
    /\ [][\A r \in Ranks :
             /\ prealloc[r] # <<>> => prealloc'[r] = prealloc[r]
             /\ Finalized(r) => Finalized(r)']_vars
    /\ <>((\A r \in Ranks : Finalized(r) /\ prealloc[r] # <<>>) \/ (\E r \in Ranks : Fatal(r)))

C20_Witness ==
    /\ cfg.level.nprocs = MaxProcs
    /\ \A r \in Ranks : pc[r] = "assembled"
    /\ \E r \in Ranks : prealloc[r].m = 0 /\ prealloc[r].d_nnz = "NULL"
    /\ \E r \in Ranks : prealloc[r].m > 0 /\ calls[r] # <<>>

----------------------------------------------------------------------------
(* Properties of the insertions and of the declared counts.                 *)

(* The rows PETSc gives process r of a matrix created with m local rows on  *)
(* every process: the m rows after those of the lower ranks.  The number of *)
(* local rows an assembler passes is its DOF count (lines 201, 855) or      *)
(* NDIM times its number of points (lines 436, 539).                        *)
LocalRows(s) ==
    IF cfg.op = "SCInterp" THEN NDIM * Len(cfg.X[s]) ELSE cfg.num_dofs_per_proc[s]

MatOwnershipRange(r) ==
    LET lo == SumOver([s \in Ranks |-> IF s < r THEN LocalRows(s) ELSE 0], Ranks)
    IN  lo..(lo + LocalRows(r) - 1)

Written(r) ==
    UNION {{<<calls[r][n].row, calls[r][n].cols[k]>> : k \in 1..Len(calls[r][n].cols)} :
             n \in 1..Len(calls[r])}

(* C21: in every assembler each process inserts values only into rows of    *)
(* its own ownership range, and no entry (row, column) is written by two    *)
(* different processes, in whatever order the processes insert.             *)
C21_RowsInOwnRange ==
    /\ \A r \in Ranks : \A n \in 1..Len(calls[r]) : calls[r][n].row \in MatOwnershipRange(r)
    /\ \A r, s \in Ranks : r # s => Written(r) \cap Written(s) = {}

(* Two processes have inserted the rows on both sides of a face their boxes *)
(* share.                                                                   *)
C21_Witness ==
    /\ cfg.op \in {"SCLaplace", "Prolong_side"}
    /\ cfg.level.nprocs = MaxProcs
    /\ \A r \in Ranks : pc[r] \in {"filled", "assembled"} /\ Len(calls[r]) > 1

(* The columns PETSc gives process r: the n local columns it passes to      *)
(* MatCreateAIJ (lines 201, 539, 855, 1031) after those of the lower ranks. *)
LocalCols(s) ==
    IF cfg.op \in {"Prolong_cell", "Prolong_side"} THEN cfg.num_coarse_dofs_per_proc[s]
    ELSE cfg.num_dofs_per_proc[s]

MatOwnershipRangeColumn(r) ==
    LET lo == SumOver([s \in Ranks |-> IF s < r THEN LocalCols(s) ELSE 0], Ranks)
    IN  lo..(lo + LocalCols(r) - 1)

(* The position of a row among the local rows of process r.                 *)
LocalRow(r, row) ==
    row - SumOver([s \in Ranks |-> IF s < r THEN LocalRows(s) ELSE 0], Ranks)

DiagonalCols(r, row) == RowCols(mat[r], row) \cap MatOwnershipRangeColumn(r)
OffDiagonalCols(r, row) == RowCols(mat[r], row) \ MatOwnershipRangeColumn(r)

(* C22: in every assembler, for every local row, the number of distinct     *)
(* locally owned columns inserted in the row is at most the local count     *)
(* declared for it at the allocation, and the number of distinct remotely   *)
(* owned columns at most the declared remote count.                         *)
C22_DeclaredCountsSuffice ==
    \A r \in Ranks : prealloc[r] # <<>> =>
        \A row \in MatOwnershipRange(r) :
            /\ Cardinality(DiagonalCols(r, row)) <= prealloc[r].d_nnz[LocalRow(r, row)]
            /\ Cardinality(OffDiagonalCols(r, row)) <= prealloc[r].o_nnz[LocalRow(r, row)]

(* A finished process holds a row with local and remote columns, as many of *)
(* each as it declared.                                                     *)
C22_Witness ==
    \E r \in Ranks :
        /\ pc[r] \in {"assembled", "scaled"}
        /\ \E row \in MatOwnershipRange(r) :
              /\ DiagonalCols(r, row) # {} /\ OffDiagonalCols(r, row) # {}
              /\ Cardinality(DiagonalCols(r, row)) = prealloc[r].d_nnz[LocalRow(r, row)]
              /\ Cardinality(OffDiagonalCols(r, row)) = prealloc[r].o_nnz[LocalRow(r, row)]

(* The coefficient the evaluator returns for location key = <<a, i, d>> and *)
(* stencil slot s: matrix_coefs(i, d * stencil_sz + s), lines 220-221, 236, *)
(* 242; the side-centred data has one component per axis (lines 358-359).   *)
Supplied(key, s) ==
    IF key[1] = CELL THEN MatrixCoefsCell(key[2], key[3] * stencil_sz + s)
    ELSE MatrixCoefsSide(key[1], key[2], s)

(* The components <<a, d>> that hold DOF index dof somewhere in the field.  *)
ComponentsOf(dof) ==
    UNION {{<<key[1], key[3]>> : key \in {k \in DOMAIN dof_index_data[p] :
                                               dof_index_data[p][k] = dof}} :
             p \in PatchNums(cfg.level)}

(* C23: in the stencil assembler, the row of an owned location i and        *)
(* component d is inserted, and pairs for every stencil slot s (0 the       *)
(* centre, then per axis the lower and the upper neighbour) the coefficient *)
(* the evaluator returned for (i, d, s) with the DOF index of               *)
(* (i + stencil[s], d); no row has a column of another component.           *)
C23_SlotPairsCoefficientWithNeighbour ==
    \A r \in Ranks : StencilDone(r) =>
        /\ \A loc \in OwnedLocations(r) :
              LET p == loc[1]
                  key == loc[2]
                  mine == {n \in 1..Len(calls[r]) : calls[r][n].row = dof_index_data[p][key]}
              IN  /\ mine # {}
                  /\ \A n \in mine : \A s \in 0..(stencil_sz - 1) :
                        /\ calls[r][n].cols[s + 1] =
                               dof_index_data[p][<<key[1], IAdd(key[2], Stencil(s)), key[3]>>]
                        /\ calls[r][n].vals[s + 1] = Supplied(key, s)
        /\ \A n \in 1..Len(calls[r]) : \A k \in 1..Len(calls[r][n].cols) :
              calls[r][n].cols[k] >= 0 =>
                  ComponentsOf(calls[r][n].cols[k]) = ComponentsOf(calls[r][n].row)

(* Two processes have finished a cell-centred operator of two components; a *)
(* row of the second component has a neighbour on the other process and a   *)
(* coefficient that differs from that of the first component.               *)
C23_Witness ==
    /\ cfg.op = "CCLaplace"
    /\ cfg.level.depth = 2
    /\ cfg.level.nprocs = MaxProcs
    /\ \A r \in Ranks : pc[r] = "assembled"
    /\ \E r \in Ranks : \E loc \in OwnedLocations(r) :
          /\ loc[2][3] = 1
          /\ Supplied(loc[2], 0) # Supplied(<<loc[2][1], loc[2][2], 0>>, 0)
          /\ \E s \in 1..(stencil_sz - 1) :
                LET c == dof_index_data[loc[1]][<<CELL, IAdd(loc[2][2], Stencil(s)), 1>>]
                IN  c >= 0 /\ ~InRange(c, rng[r])

(* The columns one pass of a count loop counts: the stencil points of a     *)
(* side (lines 318-334), the two coarse sides of a fine side (1008-1025).   *)
CountedPerPass == IF cfg.op = "SCLaplace" THEN stencil_sz ELSE 2

(* C29: in one call of the side-centred stencil assembler or of the         *)
(* side-centred prolongation assembler every owned row is counted once and  *)
(* inserted once, a DOF on a face shared by two boxes of the process too:   *)
(* its declared counts are those of one pass and no two MatSetValues calls  *)
(* of the process set the same row.                                         *)
C29_OwnedRowsVisitedOnce ==
    \A r \in Ranks : cfg.op \in {"SCLaplace", "Prolong_side"} =>
        /\ \A k \in DOMAIN d_nnz[r] : d_nnz[r][k] + o_nnz[r][k] <= CountedPerPass
        /\ \A n1, n2 \in 1..Len(calls[r]) :
              n1 # n2 => calls[r][n1].row # calls[r][n2].row

----------------------------------------------------------------------------
(* The stencil boxes of the interpolation assembler.                        *)

(* Twice the coordinate, in 1 / Quarters of a cell width from x_lower, of   *)
(* stencil line j of direction k for component axis: the lower face of cell *)
(* j along the component axis, the centre of cell j along the others.       *)
LinePosition(j, k, axis, domain_lower) ==
    Quarters * (2 * (j - domain_lower[k]) + (IF k = axis + 1 THEN 0 ELSE 1))

AtOrBelowCentre(X, X_idx, k, domain_lower) ==
    2 * X[k] <= LinePosition(X_idx[k], k, (k % NDIM), domain_lower)

RECURSIVE Power(_, _)
Power(b, e) == IF e = 0 THEN 1 ELSE b * Power(b, e - 1)

(* The points of process r that have their stencil boxes.                   *)
Interp_Boxed(r) ==
    IF cfg.op = "SCInterp" /\ pc[r] \in {"counted", "created", "filled", "assembled"}
    THEN 1..Len(cfg.X[r]) ELSE {}

(* C24: for every point and component axis the stencil box has width        *)
(* locations along each direction, width being the width the call works     *)
(* with, and width^NDIM in all, as many as the values and columns inserted  *)
(* for the row; along each direction the point lies between the two middle  *)
(* stencil lines, width/2 lines on either side; the lines are cell faces    *)
(* along the component axis and cell centres along the other axes, where    *)
(* the box lies one cell lower when the point is at or below the centre of  *)
(* its cell.                                                                *)
C24_StencilBoxCentredOnPoint ==
    \A r \in Ranks : \A k \in Interp_Boxed(r) : \A axis \in Axes :
        LET w == interp[r].interp_stencil
            dl == interp[r].domain_lower
            X == cfg.X[r][k]
            X_idx == getCellIndex(X, dl)
            sb == Interp_StencilBox(X, X_idx, dl, axis, w)
            n == NDIM * (k - 1) + axis + 1
        IN  /\ \A d \in 1..NDIM :
                  LET below == sb.lo[d] + (w \div 2) - 1
                  IN  /\ sb.hi[d] - sb.lo[d] + 1 = w
                      /\ LinePosition(below, d, axis, dl) <= 2 * X[d]
                      /\ 2 * X[d] <= LinePosition(below + 1, d, axis, dl)
                      /\ below - sb.lo[d] + 1 = w \div 2
                      /\ sb.hi[d] - below = w \div 2
                      /\ sb.lo[d] = X_idx[d] - (w \div 2)
                                      + (IF d # axis + 1 /\ AtOrBelowCentre(X, X_idx, d, dl)
                                         THEN 0 ELSE 1)
            /\ BoxSize(sb) = Power(w, NDIM)
            /\ InterpDone(r) =>
                  /\ Len(calls[r][n].cols) = Power(w, NDIM)
                  /\ Len(calls[r][n].vals) = Power(w, NDIM)
                  /\ \A m \in 1..Len(calls[r][n].cols) :
                        calls[r][n].cols[m] =
                            dof_index_data[interp[r].patch_num[k]][<<axis, BoxSeq(sb)[m], 0>>]

(* A call of width 4 is assembled for a point below the centre of its cell  *)
(* in both directions.                                                      *)
C24_Witness ==
    /\ cfg.op = "SCInterp"
    /\ cfg.interp_stencil = 4
    /\ \A r \in Ranks : pc[r] = "assembled"
    /\ \E r \in Ranks : \E k \in 1..Len(cfg.X[r]) :
          /\ Len(calls[r][1].cols) = 16
          /\ \A d \in 1..NDIM :
                AtOrBelowCentre(cfg.X[r][k], getCellIndex(cfg.X[r][k], interp[r].domain_lower),
                                d, interp[r].domain_lower)

----------------------------------------------------------------------------
(* The lists of the subdomain partitioner.                                  *)

(* The sub-boxes of patch p at the last call of process r.                  *)
SubBoxesOf(r, p) ==
    partitionPatchBox(cfg.level.patches[p].box, cfg.box_size, asm_call[r].overlap_size)

(* The number of sub-boxes of the first k patches of process r.             *)
SubBoxesBefore(r, k) ==
    SumOver([j \in 1..Len(PatchLevelIterator(r)) |->
                IF j <= k THEN Len(SubBoxesOf(r, PatchLevelIterator(r)[j])) ELSE 0],
            1..Len(PatchLevelIterator(r)))

(* The n-th sub-box of process r, counting patch by patch in the order of   *)
(* the level iterator and, in a patch, in the order of its sub-boxes.       *)
SubBoxAt(r, n) ==
    LET ps == PatchLevelIterator(r)
        k == CHOOSE j \in 1..Len(ps) : SubBoxesBefore(r, j - 1) < n /\ n <= SubBoxesBefore(r, j)
    IN  [p |-> ps[k], boxes |-> SubBoxesOf(r, ps[k])[n - SubBoxesBefore(r, k - 1)]]

OverlapSet(r, n) ==
    {is_heap[r][is_overlap[r][n]].idx[k] : k \in DOMAIN is_heap[r][is_overlap[r][n]].idx}

(* The DOF indices the field of patch p holds at the locations of box b.    *)
DofsIn(p, b) ==
    {dof_index_data[p][key] :
        key \in {k \in DOMAIN dof_index_data[p] :
                   BoxContains(DataBox(b, k[1]), k[2])}}

(* Those at the cells of b and at their lower sides.                        *)
DofsInLower(p, b) ==
    {dof_index_data[p][key] :
        key \in {k \in DOMAIN dof_index_data[p] : BoxContains(b, k[2])}}

(* C25: the two lists the partitioner returns have one length, the number   *)
(* of sub-boxes of all boxes the process owns, and entry n of both lists    *)
(* belongs to sub-box n in the order of the box traversal and, in a box, of *)
(* its sub-boxes: the non-overlapping set holds DOFs of that sub-box, the   *)
(* overlapping set the DOFs of the same sub-box grown by the overlap.       *)
C25_ListsAlignedBySubBox ==
    \A r \in Ranks : pc[r] = "partitioned" =>
        /\ Len(is_overlap[r]) = Len(is_nonoverlap[r])
        /\ Len(is_nonoverlap[r]) = SubBoxesBefore(r, Len(PatchLevelIterator(r)))
        /\ \A n \in 1..Len(is_nonoverlap[r]) :
              LET sub == SubBoxAt(r, n)
              IN  /\ DofsInLower(sub.p, sub.boxes.nonoverlap) \subseteq NonoverlapSet(r, n)
                  /\ NonoverlapSet(r, n) \subseteq DofsIn(sub.p, sub.boxes.nonoverlap)
                  /\ OverlapSet(r, n) =
                         IF asm_call[r].overlap_size = IntVec(0) THEN NonoverlapSet(r, n)
                         ELSE {dof \in DofsIn(sub.p, sub.boxes.overlap) : dof >= 0}

(* A process that owns two boxes, the second of them with several           *)
(* sub-boxes, has its lists from a call with overlap.                       *)
C25_Witness ==
    \E r \in Ranks :
        /\ pc[r] = "partitioned"
        /\ asm_call[r].overlap_size # IntVec(0)
        /\ Len(PatchLevelIterator(r)) = 2
        /\ Len(SubBoxesOf(r, PatchLevelIterator(r)[2])) > 1
        /\ Len(is_nonoverlap[r]) > 2
        /\ \A n1, n2 \in 1..Len(is_nonoverlap[r]) :
              n1 # n2 => NonoverlapSet(r, n1) # NonoverlapSet(r, n2)

(* The index array of the overlapping set of entry n of process r.          *)
OverlapIdx(r, n) == is_heap[r][is_overlap[r][n]].idx

(* The DOF indices read at the locations of the overlapping box of sub-box  *)
(* n, in loop order, before the test, the sort and the removal of repeats.  *)
OverlapRead(r, n) ==
    IF cfg.op = "ASM_cell" THEN CellDofs(SubBoxAt(r, n).p, SubBoxAt(r, n).boxes.overlap)
    ELSE Flat([a1 \in 1..NDIM |->
                  SideDofs(SubBoxAt(r, n).p, SubBoxAt(r, n).boxes.overlap, a1 - 1)])

(* C26: when a component of the overlap size is positive, every overlapping *)
(* index set holds no negative DOF index and no DOF index twice, and is in  *)
(* ascending order.                                                         *)
C26_OverlapSetsSortedUnique ==
    \A r \in Ranks :
        (pc[r] = "partitioned" /\ asm_call[r].overlap_size # IntVec(0)) =>
            \A n \in 1..Len(is_overlap[r]) :
                /\ \A k \in 1..Len(OverlapIdx(r, n)) : OverlapIdx(r, n)[k] >= 0
                /\ \A k1, k2 \in 1..Len(OverlapIdx(r, n)) :
                      k1 < k2 => OverlapIdx(r, n)[k1] < OverlapIdx(r, n)[k2]

(* An overlapping box reaches locations without a DOF and its DOFs are not  *)
(* read in ascending order.                                                 *)
C26_Witness ==
    \E r \in Ranks :
        /\ pc[r] = "partitioned"
        /\ asm_call[r].overlap_size # IntVec(0)
        /\ \E n \in 1..Len(is_overlap[r]) :
              /\ \E k \in 1..Len(OverlapRead(r, n)) : OverlapRead(r, n)[k] < 0
              /\ \E k \in 1..(Len(OverlapRead(r, n)) - 1) :
                    OverlapRead(r, n)[k] > OverlapRead(r, n)[k + 1]
                        /\ OverlapRead(r, n)[k + 1] >= 0
              /\ Len(OverlapIdx(r, n)) > 2

(* The references the two lists of process r hold to object h.              *)
ListReferences(r, h) == Count(h, is_overlap[r]) + Count(h, is_nonoverlap[r])

(* C28: over any sequence of calls on the same pair of lists, with and      *)
(* without overlap in any order, every index set is released as often as it *)
(* is referenced: an object has as many references as the lists hold to it, *)
(* two for a set both lists share; a call destroys every element of both    *)
(* lists once, so that every set of an earlier call is freed, none twice,   *)
(* and the lists hold only sets the call has built.                         *)
C28_ReleasedAsOftenAsReferenced ==
    /\ [](\A r \in Ranks : \A h \in DOMAIN is_heap[r] :
             /\ is_heap[r][h].refs = ListReferences(r, h)
             /\ is_heap[r][h].refs >= 0
             /\ (\E n \in DOMAIN is_overlap[r] :
                     is_overlap[r][n] = h /\ is_nonoverlap[r][n] = h)
                    => is_heap[r][h].refs = 2)
    /\ [][\A r \in Ranks : asm_call'[r].ncalls # asm_call[r].ncalls =>
             /\ \A h \in DOMAIN is_heap[r] :
                   /\ is_heap'[r][h].refs = 0
                   /\ is_heap[r][h].refs - is_heap'[r][h].refs = ListReferences(r, h)
             /\ \A n \in DOMAIN is_overlap'[r] :
                   /\ is_overlap'[r][n] \in DOMAIN is_heap'[r] \ DOMAIN is_heap[r]
                   /\ is_nonoverlap'[r][n] \in DOMAIN is_heap'[r] \ DOMAIN is_heap[r]]_vars

(* A second call, with overlap, has replaced the shared sets of a first     *)
(* call without overlap; another process has made the calls in the other    *)
(* order.                                                                   *)
C28_Witness ==
    /\ cfg.level.nprocs = MaxProcs
    /\ \E r \in Ranks :
          /\ pc[r] = "partitioned" /\ asm_call[r].ncalls = 2
          /\ asm_call[r].overlap_size # IntVec(0)
          /\ Len(is_nonoverlap[r]) >= 2
          /\ Len(is_heap[r]) = 3 * Len(is_nonoverlap[r])
          /\ Cardinality({h \in DOMAIN is_heap[r] : is_heap[r][h].refs = 0})
                 = Len(is_nonoverlap[r])
    /\ \E r \in Ranks :
          /\ pc[r] = "partitioned" /\ asm_call[r].ncalls = 2
          /\ asm_call[r].overlap_size = IntVec(0)
          /\ Len(is_nonoverlap[r]) >= 1
          /\ Len(is_heap[r]) = 3 * Len(is_nonoverlap[r])

(* C30: when a component of the overlap size is positive, the               *)
(* non-overlapping index set of every sub-box is a subset of the            *)
(* overlapping index set of the same sub-box, cell- and side-centred.       *)
C30_NonoverlapWithinOverlap ==
    \A r \in Ranks :
        (pc[r] = "partitioned" /\ asm_call[r].overlap_size # IntVec(0)) =>
            \A n \in 1..Len(is_nonoverlap[r]) : NonoverlapSet(r, n) \subseteq OverlapSet(r, n)

(* Both variants: a sub-box that is not the only one of its process, with   *)
(* an overlapping set that holds more than its non-overlapping set, a DOF   *)
(* of another process among them.                                           *)
C30_Witness ==
    \E r \in Ranks :
        /\ pc[r] = "partitioned"
        /\ asm_call[r].overlap_size # IntVec(0)
        /\ Len(is_nonoverlap[r]) >= 2
        /\ \E n \in 1..Len(is_nonoverlap[r]) :
              /\ NonoverlapSet(r, n) # {}
              /\ \E dof \in OverlapSet(r, n) \ NonoverlapSet(r, n) :
                    dof \notin UNION {DofsIn(p, cfg.level.patches[p].box) :
                                        p \in {q \in PatchNums(cfg.level) :
                                                 cfg.level.patches[q].owner = r}}

----------------------------------------------------------------------------
(* is_cf_bdry_idx, lines 92-101, pass by pass of its loop.  cfg holds the   *)
(* arguments idx and cf_bdry_boxes, rng the locals k and contains_idx,      *)
(* calls the list positions read so far, pc where the call is.  The loop    *)
(* condition is !contains_idx || k < n_cf_bdry_boxes: a pass with           *)
(* k >= n_cf_bdry_boxes reads cf_bdry_boxes[k] beyond the end of the        *)
(* vector; the read crashes, or gives a box that holds idx or one that      *)
(* does not.  After MaxPastEnd such reads the loop is not followed further  *)
(* ("running").                                                             *)
MaxPastEnd == 2
MaxListed == 2

CfTestIndices == BoxPoints(MkBox(<<0, 0>>, <<2, 1>>))
CfTestBoxes ==
    {MkBox(<<0, 0>>, <<0, 1>>), MkBox(<<1, 0>>, <<1, 0>>), MkBox(<<1, 0>>, <<2, 0>>)}
CfTestLists == UNION {[1..n -> CfTestBoxes] : n \in 0..MaxListed}

CfTestInit ==
    /\ \E idx \in CfTestIndices, cf_bdry_boxes \in CfTestLists :
          cfg = [op |-> "is_cf_bdry_idx", idx |-> idx, cf_bdry_boxes |-> cf_bdry_boxes]
    /\ rng = [k |-> 0, contains_idx |-> FALSE]
    /\ calls = <<>>
    /\ pc = "loop"
    /\ dof_index_data = <<>>
    /\ d_nnz = <<>>
    /\ o_nnz = <<>>
    /\ prealloc = <<>>
    /\ mat = <<>>
    /\ L = <<>>
    /\ is_overlap = <<>>
    /\ is_nonoverlap = <<>>
    /\ is_heap = <<>>
    /\ asm_call = <<>>
    /\ interp = <<>>

is_cf_bdry_idx_Pass ==
    /\ pc = "loop"
    /\ LET n_cf_bdry_boxes == Len(cfg.cf_bdry_boxes)
           k == rng.k
       IN  IF ~(~rng.contains_idx \/ k < n_cf_bdry_boxes)
           THEN pc' = "returned" /\ UNCHANGED <<rng, calls>>
           ELSE /\ calls' = Append(calls, k)
                /\ IF k < n_cf_bdry_boxes
                   THEN /\ rng' = [k |-> k + 1,
                                   contains_idx |->
                                       rng.contains_idx
                                           \/ BoxContains(cfg.cf_bdry_boxes[k + 1], cfg.idx)]
                        /\ pc' = pc
                   ELSE \E read \in {"crash", "true", "false"} :
                          /\ rng' = [k |-> k + 1,
                                     contains_idx |-> rng.contains_idx \/ read = "true"]
                          /\ pc' = IF read = "crash" THEN "crash"
                                   ELSE IF read = "false"
                                           /\ k + 1 >= n_cf_bdry_boxes + MaxPastEnd
                                        THEN "running" ELSE pc
    /\ UNCHANGED <<cfg, dof_index_data, d_nnz, o_nnz, prealloc, mat, L,
                   is_overlap, is_nonoverlap, is_heap, asm_call, interp>>

CfTestNext == is_cf_bdry_idx_Pass

SpecCfTest == CfTestInit /\ [][CfTestNext]_vars

(* C27: for every index and every list of boxes, the empty list too, the    *)
(* containment test ends, reads only list positions below the length of     *)
(* the list, and returns true exactly when a box of the list holds the      *)
(* index.                                                                   *)
C27_PointInAnyBox ==
    /\ pc \in {"loop", "returned"}
    /\ \A n \in 1..Len(calls) : calls[n] < Len(cfg.cf_bdry_boxes)
    /\ pc = "returned" =>
          (rng.contains_idx <=>
              \E n \in 1..Len(cfg.cf_bdry_boxes) : BoxContains(cfg.cf_bdry_boxes[n], cfg.idx))

============================================================================
